---- MODULE Spec2Model ----
(***************************************************************************)
(* gemcp: an MCP server that adapts the Gemini API to tool calls.          *)
(*                                                                         *)
(* src/src/index.ts is the server (configuration gate, tool schemas, the   *)
(* ListTools and CallTool handlers); the utils module it imports is the    *)
(* TypeScript that follows the two command documents in                    *)
(* src/commands/setup.md (lines 126-591).                                  *)
(*                                                                         *)
(* Strings are sequences of atoms.  Where the code looks inside a string   *)
(* (paths, fences) the atoms are single characters; elsewhere an atom      *)
(* stands for a fixed piece of text.  String concatenation is \o.          *)
(* An optional value (T | undefined) is <<>> or <<v>>.                     *)
(***************************************************************************)
EXTENDS Integers, Sequences, FiniteSets, TLC

VARIABLES
    env,          \* process.env: the two credential variables, as they are now
    startEnv,     \* process.env as it was when the process started (history)
    apiKey,       \* index.ts:16, read once when the module is loaded
    isConfigured, \* index.ts:17
    calls,        \* the CallTool requests, one record per request slot
    listed,       \* the reply to the last ListTools request
    disk          \* the files written since the server last had no request

vars == <<env, startEnv, apiKey, isConfigured, calls, listed, disk>>

----------------------------------------------------------------------------
(* JavaScript values                                                       *)

None == <<>>
Some(v) == <<v>>
IsSome(o) == Len(o) > 0
Get(o) == o[1]

\* a || b on optional strings: undefined and '' are falsy
Truthy(o) == IsSome(o) /\ Get(o) # <<>>
OrElse(a, b) == IF Truthy(a) THEN a ELSE b

\* n || 0 on optional numbers
NumOrZero(o) == IF IsSome(o) /\ Get(o) # 0 THEN Get(o) ELSE 0

Min(S) == CHOOSE x \in S : \A y \in S : x <= y
Max(S) == CHOOSE x \in S : \A y \in S : x >= y

\* the characters String.prototype.trim removes, among those of the model
IsWs(ch) == ch \in {" ", "\n"}

trim(s) ==
    LET keep == {i \in 1..Len(s) : ~IsWs(s[i])}
    IN  IF keep = {} THEN <<>> ELSE SubSeq(s, Min(keep), Max(keep))

startsWith(s, p) == Len(s) >= Len(p) /\ SubSeq(s, 1, Len(p)) = p
endsWith(s, p) == Len(s) >= Len(p) /\ SubSeq(s, Len(s) - Len(p) + 1, Len(s)) = p
\* s.slice(n) and s.slice(0, -n), for 0 <= n <= s.length
slice(s, n) == SubSeq(s, n + 1, Len(s))
sliceEnd(s, n) == SubSeq(s, 1, Len(s) - n)

\* the backtick, written as a tilde: a TLA+ string cannot hold a backtick
BT == "~"
Fence == <<BT, BT, BT>>
FenceSvg == Fence \o <<"s", "v", "g">>
FenceXml == Fence \o <<"x", "m", "l">>
FenceJson == Fence \o <<"j", "s", "o", "n">>

----------------------------------------------------------------------------
(* Fence cleanup of callGeminiSvg and callGeminiSegment                    *)

svgCleanup(text) ==
    LET s1 == trim(text)
        s2 == IF startsWith(s1, FenceSvg) THEN slice(s1, 6)
              ELSE IF startsWith(s1, FenceXml) THEN slice(s1, 6)
              ELSE IF startsWith(s1, Fence) THEN slice(s1, 3)
              ELSE s1
        s3 == IF endsWith(s2, Fence) THEN sliceEnd(s2, 3) ELSE s2
    IN  trim(s3)

jsonCleanup(text) ==
    LET s1 == trim(text)
        s2 == IF startsWith(s1, FenceJson) THEN slice(s1, 7)
              ELSE IF startsWith(s1, Fence) THEN slice(s1, 3)
              ELSE s1
        s3 == IF endsWith(s2, Fence) THEN sliceEnd(s2, 3) ELSE s2
    IN  trim(s3)

----------------------------------------------------------------------------
(* Paths                                                                   *)

Dots(p) == {i \in 1..Len(p) : p[i] = "."}

\* p.replace(/\.[^.]+$/, ''): the match can only start at the last dot, and
\* needs at least one character after it
HasExtMatch(p) == Dots(p) # {} /\ Max(Dots(p)) < Len(p)
stripExt(p) == IF HasExtMatch(p) THEN SubSeq(p, 1, Max(Dots(p)) - 1) ELSE p

\* p.replace(/(\.[^.]+)$/, "_" + i + "$1")
insertIndex(p, i) ==
    IF HasExtMatch(p)
    THEN SubSeq(p, 1, Max(Dots(p)) - 1) \o <<"_", ToString(i)>>
         \o SubSeq(p, Max(Dots(p)), Len(p))
    ELSE p

extOf(mimeType) ==
    IF mimeType = "image/png" THEN <<".", "p", "n", "g">>
    ELSE IF mimeType = "image/webp" THEN <<".", "w", "e", "b", "p">>
    ELSE <<".", "j", "p", "g">>

\* the path construction without the line that inserts the index
outputFilePathUnindexed(output_path, mimeType, n, i) == stripExt(output_path) \o extOf(mimeType)

\* index.ts:224-226 (and 258-260, 306-308): i is the 1-based index, n = images.length
outputFilePath(output_path, mimeType, n, i) ==
    LET filePath == stripExt(output_path) \o extOf(mimeType)
    IN  IF n > 1 THEN insertIndex(filePath, i) ELSE filePath

Cwd == <<"/", "w">>   \* process.cwd() of the model

RECURSIVE split(_, _)
\* s.split(ch)
split(s, ch) ==
    LET at == {i \in 1..Len(s) : s[i] = ch}
    IN  IF at = {} THEN <<s>>
        ELSE <<SubSeq(s, 1, Min(at) - 1)>> \o split(SubSeq(s, Min(at) + 1, Len(s)), ch)

RECURSIVE normalizeSegments(_, _)
normalizeSegments(segs, stack) ==
    IF segs = <<>> THEN stack
    ELSE LET h == Head(segs)
         IN  IF h = <<>> \/ h = <<".">> THEN normalizeSegments(Tail(segs), stack)
             ELSE IF h = <<".", ".">>
             THEN normalizeSegments(Tail(segs),
                      IF stack = <<>> THEN stack ELSE SubSeq(stack, 1, Len(stack) - 1))
             ELSE normalizeSegments(Tail(segs), Append(stack, h))

RECURSIVE joinSegments(_)
joinSegments(segs) ==
    IF segs = <<>> THEN <<>> ELSE <<"/">> \o Head(segs) \o joinSegments(Tail(segs))

\* path.resolve(p) (POSIX): absolute, with ".", ".." and empty segments removed
resolve(p) ==
    LET abs == IF startsWith(p, <<"/">>) THEN p ELSE Cwd \o <<"/">> \o p
        segs == normalizeSegments(split(abs, "/"), <<>>)
    IN  IF segs = <<>> THEN <<"/">> ELSE joinSegments(segs)

toLowerCase(s) ==
    [i \in 1..Len(s) |->
        CASE s[i] = "P" -> "p" [] s[i] = "N" -> "n" [] s[i] = "G" -> "g"
          [] s[i] = "J" -> "j" [] OTHER -> s[i]]

\* the object literal "types" inherits these keys from Object.prototype
InheritedKeys == {<<"constructor">>, <<"__proto__">>}

getMimeType(path) ==
    LET parts == split(toLowerCase(path), ".")
        ext == parts[Len(parts)]
    IN  CASE ext = <<"p", "n", "g">> -> "image/png"
          [] ext = <<"j", "p", "g">> -> "image/jpeg"
          [] ext = <<"j", "p", "e", "g">> -> "image/jpeg"
          [] ext = <<"g", "i", "f">> -> "image/gif"
          [] ext = <<"w", "e", "b", "p">> -> "image/webp"
          [] ext = <<"b", "m", "p">> -> "image/bmp"
          [] ext \in InheritedKeys -> "Object.prototype member"
          [] OTHER -> "image/png"

\* Buffer.toString('base64') and Buffer.from(s, 'base64'); bytes are atoms
toBase64(bytes) == IF bytes = "" THEN <<>> ELSE <<"base64(", bytes, ")">>
fromBase64(s) ==
    IF Len(s) = 3 /\ s[1] = "base64(" /\ s[3] = ")" THEN s[2]
    ELSE IF s = <<>> THEN "" ELSE "undecodable"

----------------------------------------------------------------------------
(* Argument schemas (zod).  request.params.arguments is an optional record *)
(* whose fields are optional values; each schema gives the list of fields  *)
(* that fail, in schema order, and the parsed record with its defaults.    *)

issue(failed, field) == IF failed THEN <<field>> ELSE <<>>
missing(o) == ~IsSome(o)
\* the range check with .gt(lo).lt(hi) in place of .min(lo).max(hi)
outOfRangeExclusive(o, lo, hi) == IsSome(o) /\ ~(lo < Get(o) /\ Get(o) < hi)
\* z.number().min(lo).max(hi).optional()
outOfRange(o, lo, hi) == IsSome(o) /\ ~(lo <= Get(o) /\ Get(o) <= hi)
\* z.enum([...]).optional()
notIn(o, S) == IsSome(o) /\ Get(o) \notin S
withDefault(o, d) == IF IsSome(o) THEN o ELSE Some(d)

ThinkingLevels == {"low", "high"}
Roles == {"user", "assistant", "system"}
ImageSizes == {"1K", "2K", "4K"}
AspectRatios == {"1:1", "2:3", "3:2", "3:4", "4:3", "4:5", "5:4", "9:16", "16:9", "21:9"}
OutputFormats == {"png", "jpeg", "webp"}
UpscaleFactors == {"x2", "x4"}
EditModes == {"inpaint", "outpaint"}
DefaultModel == <<"gemini-3-pro-preview">>

GeminiGenerateSchema(a) ==
    issue(missing(a.prompt), "prompt")
    \o issue(notIn(a.thinking_level, ThinkingLevels), "thinking_level")
    \o issue(outOfRange(a.temperature, 0, 2), "temperature")
    \o issue(outOfRange(a.top_p, 0, 1), "top_p")

GeminiMessagesSchema(a) ==
    issue(missing(a.messages)
          \/ (IsSome(a.messages)
              /\ \E i \in 1..Len(Get(a.messages)) : Get(a.messages)[i].role \notin Roles),
          "messages")
    \o issue(notIn(a.thinking_level, ThinkingLevels), "thinking_level")
    \o issue(outOfRange(a.temperature, 0, 2), "temperature")
    \o issue(outOfRange(a.top_p, 0, 1), "top_p")

GeminiImageSchema(a) ==
    issue(missing(a.prompt), "prompt")
    \o issue(notIn(a.image_size, ImageSizes), "image_size")
    \o issue(notIn(a.aspect_ratio, AspectRatios), "aspect_ratio")
    \o issue(outOfRange(a.num_images, 1, 4), "num_images")

GeminiUpscaleSchema(a) ==
    issue(missing(a.input_image), "input_image")
    \o issue(notIn(a.output_format, OutputFormats), "output_format")
    \o issue(outOfRange(a.jpeg_quality, 0, 100), "jpeg_quality")
    \o issue(notIn(a.upscale_factor, UpscaleFactors), "upscale_factor")

GeminiEditSchema(a) ==
    issue(missing(a.prompt), "prompt")
    \o issue(missing(a.input_image), "input_image")
    \o issue(notIn(a.edit_mode, EditModes), "edit_mode")
    \o issue(notIn(a.output_format, OutputFormats), "output_format")
    \o issue(outOfRange(a.jpeg_quality, 0, 100), "jpeg_quality")
    \o issue(outOfRange(a.num_images, 1, 4), "num_images")

GeminiSvgSchema(a) == issue(missing(a.prompt), "prompt")

GeminiSegmentSchema(a) == issue(missing(a.input_image), "input_image")

CapabilityTools ==
    <<"gemini_generate", "gemini_messages", "gemini_image", "gemini_upscale",
      "gemini_edit", "gemini_svg", "gemini_segment">>
Range(f) == {f[i] : i \in DOMAIN f}

\* the issues of Schema.parse(request.params.arguments) for a capability tool
schemaIssues(name, arguments) ==
    IF ~IsSome(arguments) THEN <<"arguments">>
    ELSE LET a == Get(arguments)
         IN  CASE name = "gemini_generate" -> GeminiGenerateSchema(a)
               [] name = "gemini_messages" -> GeminiMessagesSchema(a)
               [] name = "gemini_image" -> GeminiImageSchema(a)
               [] name = "gemini_upscale" -> GeminiUpscaleSchema(a)
               [] name = "gemini_edit" -> GeminiEditSchema(a)
               [] name = "gemini_svg" -> GeminiSvgSchema(a)
               [] name = "gemini_segment" -> GeminiSegmentSchema(a)

\* the record Schema.parse returns: the defaults filled in
schemaParse(name, arguments) ==
    LET a == Get(arguments)
    IN  CASE name \in {"gemini_generate", "gemini_messages"} ->
                [a EXCEPT !.model = withDefault(a.model, DefaultModel)]
          [] name = "gemini_image" ->
                [a EXCEPT !.image_size = withDefault(a.image_size, "1K")]
          [] name = "gemini_upscale" ->
                [a EXCEPT !.upscale_factor = withDefault(a.upscale_factor, "x2")]
          [] OTHER -> a

\* ZodError.message names the fields that failed
zodMessage(issues) == <<"ZodError: invalid ">> \o issues

----------------------------------------------------------------------------
(* Upstream call layer (utils): what each wrapper sends and what it makes  *)
(* of the response.                                                        *)
(* A generateContent response is [candidates, usageMetadata, text]: the    *)
(* candidates are optional, a candidate is [parts] (optional: the          *)
(* candidate's content or its parts may be missing), a part is             *)
(* [text, inlineData, thought], text is the response's own text accessor.  *)
(* An upscaleImage or editImage response is [generatedImages].             *)

EmptyResult ==
    [content |-> <<>>, reasoning |-> None, text |-> None, images |-> <<>>,
     svg |-> <<>>, masks |-> <<>>, usage |-> None]

\* response.candidates?.[0]?.content?.parts, or no parts at all
firstParts(response) ==
    IF IsSome(response.candidates) /\ Len(Get(response.candidates)) > 0
       /\ IsSome(Get(response.candidates)[1].parts)
    THEN Get(Get(response.candidates)[1].parts)
    ELSE <<>>

RECURSIVE textOfParts(_)
\* for (const part of parts) if (part.text) content += part.text
textOfParts(parts) ==
    IF parts = <<>> THEN <<>>
    ELSE (IF Truthy(Head(parts).text) THEN Get(Head(parts).text) ELSE <<>>)
         \o textOfParts(Tail(parts))

\* the usage reported only when the response carries a total token count
usageOfCounted(response) ==
    IF IsSome(response.usageMetadata) /\ Truthy(Get(response.usageMetadata).totalTokenCount)
    THEN LET u == Get(response.usageMetadata)
         IN  Some([promptTokens |-> NumOrZero(u.promptTokenCount),
                   completionTokens |-> NumOrZero(u.candidatesTokenCount),
                   totalTokens |-> NumOrZero(u.totalTokenCount)])
    ELSE None

usageOf(response) ==
    IF IsSome(response.usageMetadata)
    THEN LET u == Get(response.usageMetadata)
         IN  Some([promptTokens |-> NumOrZero(u.promptTokenCount),
                   completionTokens |-> NumOrZero(u.candidatesTokenCount),
                   totalTokens |-> NumOrZero(u.totalTokenCount)])
    ELSE None

callGeminiRequest(key, prompt, options) ==
    [api |-> "generateContent", apiKey |-> key,
     model |-> OrElse(options.model, Some(DefaultModel)),
     contents |-> prompt,
     config |-> [systemInstruction |-> options.instructions,
                 maxOutputTokens |-> options.maxTokens,
                 temperature |-> options.temperature,
                 topP |-> options.topP]]

\* callGemini reading the response's text accessor in place of the parts
callGeminiResultOfText(response) ==
    [EmptyResult EXCEPT !.content = IF IsSome(response.text) THEN Get(response.text) ELSE <<>>,
                        !.usage = usageOf(response)]

callGeminiResult(response) ==
    [EmptyResult EXCEPT !.content = textOfParts(firstParts(response)),
                        !.usage = usageOf(response)]

\* messages.find(m => m.role === 'system')?.content
systemMessageContent(messages) ==
    LET sys == {i \in 1..Len(messages) : messages[i].role = "system"}
    IN  IF sys = {} THEN None ELSE Some(messages[Min(sys)].content)

\* the conversation sent as it is, role for role
chatMessagesUnfiltered(messages) ==
    [i \in 1..Len(messages) |->
        [role |-> messages[i].role, parts |-> <<[text |-> messages[i].content]>>]]

chatMessages(messages) ==
    LET kept == SelectSeq(messages, LAMBDA m : m.role # "system")
    IN  [i \in 1..Len(kept) |->
            [role |-> IF kept[i].role = "assistant" THEN "model" ELSE "user",
             parts |-> <<[text |-> kept[i].content]>>]]

\* the request without the system-role message as a fallback instruction
callGeminiWithMessagesRequestNoSystem(key, messages, options) ==
    [api |-> "generateContent", apiKey |-> key,
     model |-> OrElse(options.model, Some(DefaultModel)),
     contents |-> chatMessages(messages),
     config |-> [systemInstruction |-> options.instructions,
                 maxOutputTokens |-> options.maxTokens,
                 temperature |-> options.temperature,
                 topP |-> options.topP]]

callGeminiWithMessagesRequest(key, messages, options) ==
    [api |-> "generateContent", apiKey |-> key,
     model |-> OrElse(options.model, Some(DefaultModel)),
     contents |-> chatMessages(messages),
     config |-> [systemInstruction |->
                     OrElse(options.instructions, systemMessageContent(messages)),
                 maxOutputTokens |-> options.maxTokens,
                 temperature |-> options.temperature,
                 topP |-> options.topP]]

\* the request with negativePrompt, numberOfImages and guidanceScale put into
\* the generation config
callGeminiImageRequestForwarding(key, prompt, options) ==
    [api |-> "generateContent", apiKey |-> key,
     model |-> Some(<<"gemini-3-pro-image-preview">>),
     contents |->
        <<[role |-> "user",
           parts |->
             (IF IsSome(options.inputImage) /\ Get(options.inputImage).imageBytes # <<>>
              THEN <<[inlineData |-> [data |-> Get(options.inputImage).imageBytes,
                                      mimeType |-> Get(options.inputImage).mimeType]]>>
              ELSE <<>>)
             \o <<[text |-> prompt]>>]>>,
     config |-> [responseModalities |-> <<"IMAGE", "TEXT">>,
                 seed |-> options.seed,
                 negativePrompt |-> options.negativePrompt,
                 numberOfImages |-> options.numberOfImages,
                 guidanceScale |-> options.guidanceScale,
                 imageConfig |-> [imageSize |-> options.imageSize,
                                  aspectRatio |-> options.aspectRatio]]]

callGeminiImageRequest(key, prompt, options) ==
    [api |-> "generateContent", apiKey |-> key,
     model |-> Some(<<"gemini-3-pro-image-preview">>),
     contents |->
        <<[role |-> "user",
           parts |->
             (IF IsSome(options.inputImage) /\ Get(options.inputImage).imageBytes # <<>>
              THEN <<[inlineData |-> [data |-> Get(options.inputImage).imageBytes,
                                      mimeType |-> Get(options.inputImage).mimeType]]>>
              ELSE <<>>)
             \o <<[text |-> prompt]>>]>>,
     config |-> [responseModalities |-> <<"IMAGE", "TEXT">>,
                 seed |-> options.seed,
                 imageConfig |-> [imageSize |-> options.imageSize,
                                  aspectRatio |-> options.aspectRatio]]]

RECURSIVE imagesOfPartsAsDeclared(_)
\* the image list without the default for a part that declares no mime type
imagesOfPartsAsDeclared(parts) ==
    IF parts = <<>> THEN <<>>
    ELSE LET part == Head(parts)
         IN  (IF IsSome(part.inlineData)
              THEN <<[mimeType |-> IF IsSome(Get(part.inlineData).mimeType)
                                   THEN Get(Get(part.inlineData).mimeType)
                                   ELSE "undefined",
                      data |-> IF IsSome(Get(part.inlineData).data)
                               THEN Get(Get(part.inlineData).data) ELSE <<>>]>>
              ELSE <<>>)
             \o imagesOfPartsAsDeclared(Tail(parts))

RECURSIVE imagesOfParts(_)
imagesOfParts(parts) ==
    IF parts = <<>> THEN <<>>
    ELSE LET part == Head(parts)
         IN  (IF IsSome(part.inlineData)
              THEN <<[mimeType |-> IF IsSome(Get(part.inlineData).mimeType)
                                   THEN Get(Get(part.inlineData).mimeType)
                                   ELSE "image/png",
                      data |-> IF IsSome(Get(part.inlineData).data)
                               THEN Get(Get(part.inlineData).data) ELSE <<>>]>>
              ELSE <<>>)
             \o imagesOfParts(Tail(parts))

RECURSIVE captionOfParts(_, _)
\* else if (part.text) text = part.text
captionOfParts(parts, text) ==
    IF parts = <<>> THEN text
    ELSE LET part == Head(parts)
         IN  captionOfParts(Tail(parts),
                 IF ~IsSome(part.inlineData) /\ Truthy(part.text) THEN part.text ELSE text)

callGeminiImageResult(response) ==
    [EmptyResult EXCEPT !.text = captionOfParts(firstParts(response), None),
                        !.images = imagesOfParts(firstParts(response)),
                        !.usage = usageOf(response)]

formatToMime(format) ==
    IF IsSome(format) THEN Some(<<"image/">> \o <<Get(format)>>) ELSE None

callGeminiUpscaleRequest(key, imageData, options) ==
    [api |-> "upscaleImage", apiKey |-> key,
     model |-> Some(<<"imagen-3.0-generate-002">>),
     image |-> imageData,
     upscaleFactor |-> IF IsSome(options.upscaleFactor) THEN Get(options.upscaleFactor)
                       ELSE "x2",
     config |-> [outputMimeType |-> formatToMime(options.outputFormat),
                 outputCompressionQuality |-> options.jpegQuality]]

RECURSIVE generatedImagesOf(_)
generatedImagesOf(generated) ==
    IF generated = <<>> THEN <<>>
    ELSE LET img == Head(generated)
         IN  (IF IsSome(img.image) /\ Truthy(Get(img.image).imageBytes)
              THEN <<[mimeType |-> IF IsSome(Get(img.image).mimeType)
                                   THEN Get(Get(img.image).mimeType) ELSE "image/png",
                      data |-> Get(Get(img.image).imageBytes)]>>
              ELSE <<>>)
             \o generatedImagesOf(Tail(generated))

callGeminiUpscaleResult(response) ==
    [EmptyResult EXCEPT !.images =
        IF IsSome(response.generatedImages)
        THEN generatedImagesOf(Get(response.generatedImages)) ELSE <<>>]

\* truthiness of an optional number: undefined and 0 are falsy
ifNumber(o) == IF IsSome(o) /\ Get(o) # 0 THEN o ELSE None

callGeminiEditRequest(key, prompt, imageData, maskData, options) ==
    [api |-> "editImage", apiKey |-> key,
     model |-> Some(<<"imagen-3.0-capability-001">>),
     prompt |-> prompt,
     referenceImages |->
        <<[kind |-> "RawReferenceImage", referenceImage |-> imageData,
           referenceId |-> 1, maskMode |-> None]>>
        \o (IF IsSome(maskData)
            THEN <<[kind |-> "MaskReferenceImage", referenceImage |-> Get(maskData),
                    referenceId |-> 2, maskMode |-> Some("MASK_MODE_USER_PROVIDED")]>>
            ELSE <<>>),
     config |-> [outputMimeType |-> formatToMime(options.outputFormat),
                 outputCompressionQuality |-> options.jpegQuality,
                 negativePrompt |-> IF Truthy(options.negativePrompt)
                                    THEN options.negativePrompt ELSE None,
                 numberOfImages |-> ifNumber(options.numberOfImages),
                 guidanceScale |-> ifNumber(options.guidanceScale),
                 seed |-> options.seed,
                 editMode |-> IF options.editMode = Some("inpaint")
                              THEN Some("EDIT_MODE_INPAINT_INSERTION")
                              ELSE IF options.editMode = Some("outpaint")
                              THEN Some("EDIT_MODE_OUTPAINT") ELSE None]]

callGeminiEditResult(response) == callGeminiUpscaleResult(response)

SvgSystemPrompt == <<"You are an expert SVG designer. ...">>

callGeminiSvgRequest(key, prompt, options) ==
    [api |-> "generateContent", apiKey |-> key,
     model |-> Some(DefaultModel),
     contents |-> prompt,
     config |-> [systemInstruction |-> OrElse(options.instructions, Some(SvgSystemPrompt)),
                 temperature |-> "0.7"]]

callGeminiSvgResult(response) ==
    [EmptyResult EXCEPT !.svg = svgCleanup(textOfParts(firstParts(response))),
                        !.usage = usageOf(response)]

(* JSON.parse on the texts of the model.  A text is a sequence of atoms:   *)
(* "[", "]" and "," are JSON punctuation, white space is skipped, an atom  *)
(* of JsonObjects or JsonScalars is one complete JSON object or scalar,    *)
(* and any other atom is no JSON.                                          *)

\* the fields of each object atom, as JSON.parse returns them
JsonObjects ==
    [x \in {"{cat}", "{dog}", "{uri}", "{bare}", "{empty}"} |->
        CASE x = "{cat}" ->
                [box_2d |-> Some("[0,0,500,500]"), mask |-> Some(toBase64("MASK-CAT")),
                 label |-> Some("cat")]
          [] x = "{dog}" ->
                [box_2d |-> Some("[9,9,99,99]"), mask |-> Some(toBase64("MASK-DOG")),
                 label |-> Some("dog")]
          [] x = "{uri}" ->
                [box_2d |-> Some("[1,1,2,2]"),
                 mask |-> Some(<<"data:", "image/png;base64", ",">> \o toBase64("MASK-URI")),
                 label |-> Some("uri")]
          [] x = "{bare}" ->
                [box_2d |-> Some("[3,3,4,4]"), mask |-> Some(<<"data:", "RERE">>),
                 label |-> Some("bare")]
          [] x = "{empty}" ->
                [box_2d |-> None, mask |-> None, label |-> None]]
JsonScalars == {"5", "null"}

JsonFail == [ok |-> FALSE, next |-> 0, value |-> [arr |-> FALSE, atom |-> "", items |-> <<>>]]

RECURSIVE jsonValue(_, _)
RECURSIVE jsonElements(_, _, _)
\* the JSON value that starts at ts[i]
jsonValue(ts, i) ==
    IF i > Len(ts) THEN JsonFail
    ELSE IF ts[i] \in DOMAIN JsonObjects \cup JsonScalars
    THEN [ok |-> TRUE, next |-> i + 1,
          value |-> [arr |-> FALSE, atom |-> ts[i], items |-> <<>>]]
    ELSE IF ts[i] = "["
    THEN IF i + 1 <= Len(ts) /\ ts[i + 1] = "]"
         THEN [ok |-> TRUE, next |-> i + 2,
               value |-> [arr |-> TRUE, atom |-> "", items |-> <<>>]]
         ELSE jsonElements(ts, i + 1, <<>>)
    ELSE JsonFail

jsonElements(ts, i, items) ==
    LET v == jsonValue(ts, i)
    IN  IF ~v.ok \/ v.next > Len(ts) THEN JsonFail
        ELSE IF ts[v.next] = ","
        THEN jsonElements(ts, v.next + 1, Append(items, v.value))
        ELSE IF ts[v.next] = "]"
        THEN [ok |-> TRUE, next |-> v.next + 1,
              value |-> [arr |-> TRUE, atom |-> "", items |-> Append(items, v.value)]]
        ELSE JsonFail

\* [ok |-> FALSE] stands for the SyntaxError
JSONparse(text) ==
    LET ts == SelectSeq(text, LAMBDA ch : ~IsWs(ch))
        v == jsonValue(ts, 1)
    IN  IF v.ok /\ v.next = Len(ts) + 1 THEN v ELSE JsonFail

\* m.mask.startsWith throws a TypeError unless m is an object with a string mask
hasStringMask(v) ==
    ~v.arr /\ v.atom \in DOMAIN JsonObjects /\ IsSome(JsonObjects[v.atom].mask)

\* { ...m, mask: m.mask.startsWith('data:') ? m.mask.split(',')[1] : m.mask }
segmentationMask(v) ==
    LET m == JsonObjects[v.atom]
        mask == Get(m.mask)
    IN  [m EXCEPT !.mask =
            IF startsWith(mask, <<"data:">>)
            THEN IF Len(split(mask, ",")) >= 2 THEN Some(split(mask, ",")[2]) ELSE None
            ELSE Some(mask)]

\* the try block of callGeminiSegment: any throw leaves masks = []
masksOfText(jsonText) ==
    LET parsed == JSONparse(jsonText)
    IN  IF ~parsed.ok THEN <<>>
        ELSE IF ~parsed.value.arr THEN <<>>
        ELSE IF \E i \in 1..Len(parsed.value.items) : ~hasStringMask(parsed.value.items[i])
        THEN <<>>
        ELSE [i \in 1..Len(parsed.value.items) |-> segmentationMask(parsed.value.items[i])]

SegmentPrompt == <<"Give the segmentation masks for all objects. ...">>

callGeminiSegmentRequest(key, imageData, prompt) ==
    [api |-> "generateContent", apiKey |-> key,
     model |-> Some(<<"gemini-2.5-flash">>),
     contents |->
        <<[role |-> "user",
           parts |-> <<[inlineData |-> [data |-> imageData.imageBytes,
                                        mimeType |-> imageData.mimeType]],
                       [text |-> Get(OrElse(prompt, Some(SegmentPrompt)))]>>]>>,
     config |-> [temperature |-> "0", responseModalities |-> <<"TEXT">>]]

callGeminiSegmentResult(response) ==
    [EmptyResult EXCEPT
        !.masks = masksOfText(jsonCleanup(textOfParts(firstParts(response)))),
        !.usage = usageOf(response)]

----------------------------------------------------------------------------
(* Tool dispatcher (index.ts).  A call record holds the handler's locals   *)
(* and what the call has done so far; pc is the await the handler is       *)
(* suspended at.                                                           *)

SETUP_INSTRUCTIONS == <<"Gemini MCP Server - Setup Required ...">>

textBlock(text) == [type |-> "text", text |-> text]
\* the image block with a fixed mime type
imageBlockAsPng(img) == [type |-> "image", data |-> img.data, mimeType |-> "image/png"]
imageBlock(img) == [type |-> "image", data |-> img.data, mimeType |-> img.mimeType]

\* a handler returns a result or throws a protocol error
resultReply(content, isError) ==
    [kind |-> "result", content |-> content, isError |-> isError,
     code |-> "", message |-> <<>>]
McpError(code, message) ==
    [kind |-> "error", content |-> <<>>, isError |-> FALSE,
     code |-> code, message |-> <<"MCP error ", code, ": ">> \o message]
unknownTool(name) == McpError("MethodNotFound", <<"Unknown tool: ", name>>)

IdleCall ==
    [pc |-> "idle", name |-> "", arguments |-> None, args |-> None,
     inputImage |-> None, maskImage |-> None, requests |-> <<>>,
     response |-> None, result |-> EmptyResult, content |-> <<>>, i |-> 0,
     reads |-> <<>>, writes |-> <<>>, steps |-> <<>>, thrown |-> None, reply |-> None]

return(c, reply) ==
    [c EXCEPT !.pc = "done", !.reply = Some(reply), !.steps = Append(@, "reply")]

\* the handler without its catch: the Error leaves it as a protocol error
catchRethrow(c, message) == return(c, McpError("InternalError", message))

\* index.ts:381-383
catch(c, message) ==
    return(c, resultReply(<<textBlock(<<"Gemini API error: ">> \o message)>>, TRUE))

\* an Error with this message is thrown inside the try block, at this step
throw(c, step, message) ==
    catch([c EXCEPT !.thrown = Some([step |-> step, message |-> message])], message)

usageFooter(u) ==
    <<"**Usage:** ", ToString(u.promptTokens), " prompt, ",
      ToString(u.completionTokens), " completion, ", ToString(u.totalTokens), " total">>

withUsage(text, usage) ==
    IF IsSome(usage) THEN text \o <<"\n\n">> \o usageFooter(Get(usage)) ELSE text
pushUsage(content, usage) ==
    IF IsSome(usage) THEN Append(content, textBlock(usageFooter(Get(usage)))) ELSE content

\* index.ts:150-155
unconfiguredCall(name) ==
    IF name = "gemini_setup"
    THEN return([IdleCall EXCEPT !.name = name],
                resultReply(<<textBlock(SETUP_INSTRUCTIONS)>>, FALSE))
    ELSE return([IdleCall EXCEPT !.name = name], unknownTool(name))

textOptions(args) ==
    [model |-> args.model, instructions |-> args.instructions,
     thinkingLevel |-> args.thinking_level, includeThoughts |-> args.include_thoughts,
     maxTokens |-> args.max_tokens, temperature |-> args.temperature,
     topP |-> args.top_p]

\* the one upstream request of each case of the switch
upstreamRequest(c, key) ==
    LET args == c.args
    IN  CASE c.name = "gemini_generate" ->
                callGeminiRequest(key, Get(args.prompt), textOptions(args))
          [] c.name = "gemini_messages" ->
                callGeminiWithMessagesRequest(key, Get(args.messages), textOptions(args))
          [] c.name = "gemini_image" ->
                callGeminiImageRequest(key, Get(args.prompt),
                    [imageSize |-> args.image_size, aspectRatio |-> args.aspect_ratio,
                     negativePrompt |-> args.negative_prompt,
                     numberOfImages |-> args.num_images,
                     guidanceScale |-> args.guidance_scale, seed |-> args.seed,
                     inputImage |-> c.inputImage])
          [] c.name = "gemini_upscale" ->
                callGeminiUpscaleRequest(key, Get(c.inputImage),
                    [upscaleFactor |-> args.upscale_factor,
                     outputFormat |-> args.output_format,
                     jpegQuality |-> args.jpeg_quality])
          [] c.name = "gemini_edit" ->
                callGeminiEditRequest(key, Get(args.prompt), Get(c.inputImage), c.maskImage,
                    [editMode |-> args.edit_mode, outputFormat |-> args.output_format,
                     jpegQuality |-> args.jpeg_quality,
                     negativePrompt |-> args.negative_prompt,
                     numberOfImages |-> args.num_images,
                     guidanceScale |-> args.guidance_scale, seed |-> args.seed])
          [] c.name = "gemini_svg" ->
                callGeminiSvgRequest(key, Get(args.prompt),
                    [instructions |-> args.instructions])
          [] c.name = "gemini_segment" ->
                callGeminiSegmentRequest(key, Get(c.inputImage), args.prompt)

issueRequest(c, key) ==
    [c EXCEPT !.pc = "upstream", !.requests = Append(@, upstreamRequest(c, key)),
              !.steps = Append(@, "request")]

issueRead(c, pc, path) ==
    [c EXCEPT !.pc = pc, !.reads = Append(@, resolve(path)), !.steps = Append(@, "read")]

issueWrite(c) == [c EXCEPT !.pc = "write", !.steps = Append(@, "write")]

readsInput(name, args) ==
    \/ name \in {"gemini_upscale", "gemini_edit", "gemini_segment"}
    \/ name = "gemini_image" /\ Truthy(args.input_image)

\* the switch with its default case outside the try block
configuredCallDefaultUncaught(name, arguments, key) ==
    LET c0 == [IdleCall EXCEPT !.name = name, !.arguments = arguments]
    IN  IF name \notin Range(CapabilityTools) THEN return(c0, unknownTool(name))
        ELSE LET issues == schemaIssues(name, arguments)
                 c1 == [c0 EXCEPT !.steps = <<"parse">>]
             IN  IF issues # <<>> THEN throw(c1, "validation", zodMessage(issues))
                 ELSE LET c2 == [c1 EXCEPT !.args = schemaParse(name, arguments)]
                      IN  IF readsInput(name, c2.args)
                          THEN issueRead(c2, "readInput", Get(c2.args.input_image))
                          ELSE issueRequest(c2, key)

\* index.ts:170-172 and the code of each case up to its first await
configuredCall(name, arguments, key) ==
    LET c0 == [IdleCall EXCEPT !.name = name, !.arguments = arguments]
    IN  IF name \notin Range(CapabilityTools) THEN throw(c0, "dispatch", unknownTool(name).message)
        ELSE LET issues == schemaIssues(name, arguments)
                 c1 == [c0 EXCEPT !.steps = <<"parse">>]
             IN  IF issues # <<>> THEN throw(c1, "validation", zodMessage(issues))
                 ELSE LET c2 == [c1 EXCEPT !.args = schemaParse(name, arguments)]
                      IN  IF readsInput(name, c2.args)
                          THEN issueRead(c2, "readInput", Get(c2.args.input_image))
                          ELSE issueRequest(c2, key)

\* { imageBytes: buffer.toString('base64'), mimeType: getMimeType(absPath) }
imageOf(bytes, absPath) == [imageBytes |-> toBase64(bytes), mimeType |-> getMimeType(absPath)]

afterReadInput(c, bytes, key) ==
    LET c1 == [c EXCEPT !.inputImage = Some(imageOf(bytes, c.reads[Len(c.reads)]))]
    IN  IF c.name = "gemini_edit" /\ Truthy(c.args.mask_image)
        THEN issueRead(c1, "readMask", Get(c.args.mask_image))
        ELSE issueRequest(c1, key)

\* the mask read but not handed to callGeminiEdit
afterReadMaskDropped(c, bytes, key) == issueRequest(c, key)

afterReadMask(c, bytes, key) ==
    issueRequest([c EXCEPT !.maskImage = Some(imageOf(bytes, c.reads[Len(c.reads)]))], key)

\* result.reasoning ? "**Reasoning:**..." : result.content, then the usage footer
textReply(c, result) ==
    LET text == IF Truthy(result.reasoning)
                THEN <<"**Reasoning:**\n">> \o Get(result.reasoning)
                     \o <<"\n\n**Response:**\n">> \o result.content
                ELSE result.content
    IN  return([c EXCEPT !.result = result],
               resultReply(<<textBlock(withUsage(text, result.usage))>>, FALSE))

\* the file the handler is writing while it is suspended at "write"
pendingWrite(c) ==
    CASE c.name \in {"gemini_image", "gemini_upscale", "gemini_edit"} ->
            LET img == c.result.images[c.i]
            IN  [path |-> resolve(outputFilePath(Get(c.args.output_path), img.mimeType,
                                                 Len(c.result.images), c.i)),
                 data |-> <<fromBase64(img.data)>>]
      [] c.name = "gemini_svg" ->
            [path |-> resolve(Get(c.args.output_path)), data |-> c.result.svg]
      [] c.name = "gemini_segment" ->
            [path |-> resolve(Get(c.args.output_mask_path)),
             data |-> <<fromBase64(Get(c.result.masks[1].mask))>>]

\* index.ts:221-236 (255-268, 303-316): the loop from image c.i on, up to the
\* next writeFile or the return
imageLoop(c) ==
    IF c.i > Len(c.result.images)
    THEN return(c, resultReply(IF c.name = "gemini_image"
                               THEN pushUsage(c.content, c.result.usage)
                               ELSE c.content, FALSE))
    ELSE IF Truthy(c.args.output_path) THEN issueWrite(c)
    ELSE LET rest == [k \in 1..(Len(c.result.images) - c.i + 1) |->
                         imageBlock(c.result.images[c.i + k - 1])]
             content == c.content \o rest
         IN  return([c EXCEPT !.content = content, !.i = Len(c.result.images) + 1],
                    resultReply(IF c.name = "gemini_image"
                                THEN pushUsage(content, c.result.usage)
                                ELSE content, FALSE))

imageReply(c, result) ==
    imageLoop([c EXCEPT !.result = result, !.i = 1,
                        !.content = IF c.name # "gemini_upscale" /\ Truthy(result.text)
                                    THEN <<textBlock(Get(result.text))>> ELSE <<>>])

\* the svg case without its branch for an output path
svgReplyInline(c, result) ==
    return([c EXCEPT !.result = result],
           resultReply(<<textBlock(withUsage(result.svg, result.usage))>>, FALSE))

svgReply(c, result) ==
    IF Truthy(c.args.output_path) THEN issueWrite([c EXCEPT !.result = result])
    ELSE return([c EXCEPT !.result = result],
                resultReply(<<textBlock(withUsage(result.svg, result.usage))>>, FALSE))

labelText(label) == IF IsSome(label) THEN Get(label) ELSE "undefined"

\* the summary with the mask itself in place of its length
maskInfoWithMask(masks) ==
    [i \in 1..Len(masks) |->
        <<"{index: ", ToString(i - 1)>>
        \o (IF IsSome(masks[i].label) THEN <<", label: ", Get(masks[i].label)>> ELSE <<>>)
        \o (IF IsSome(masks[i].box_2d) THEN <<", box_2d: ", Get(masks[i].box_2d)>> ELSE <<>>)
        \o <<", mask: ">> \o Get(masks[i].mask) \o <<"}">>]

\* JSON.stringify(maskInfo, null, 2) leaves out the undefined fields
maskInfo(masks) ==
    [i \in 1..Len(masks) |->
        <<"{index: ", ToString(i - 1)>>
        \o (IF IsSome(masks[i].label) THEN <<", label: ", Get(masks[i].label)>> ELSE <<>>)
        \o (IF IsSome(masks[i].box_2d) THEN <<", box_2d: ", Get(masks[i].box_2d)>> ELSE <<>>)
        \o <<", mask_base64_length: ", ToString(Len(Get(masks[i].mask))), "}">>]

RECURSIVE concat(_)
concat(texts) == IF texts = <<>> THEN <<>> ELSE Head(texts) \o concat(Tail(texts))

\* the segment case without its branch for an empty mask list
segmentReplyNoEmptyCase(c, result) ==
    LET c1 == [c EXCEPT !.result = result]
        content == <<textBlock(<<"Found ", ToString(Len(result.masks)), " segment(s):\n">>
                               \o concat(maskInfo(result.masks)))>>
        c2 == [c1 EXCEPT !.content = content]
    IN  IF \E i \in 1..Len(result.masks) : ~IsSome(result.masks[i].mask)
        THEN throw(c1, "reply", <<"TypeError: undefined is not an object (evaluating 'm.mask.length')">>)
        ELSE IF Truthy(c.args.output_mask_path) /\ Len(result.masks) > 0 THEN issueWrite(c2)
        ELSE return(c2, resultReply(pushUsage(content, result.usage), FALSE))

segmentReply(c, result) ==
    LET c1 == [c EXCEPT !.result = result]
    IN  IF Len(result.masks) = 0
        THEN return([c1 EXCEPT !.content = <<textBlock(<<"No objects detected for segmentation.">>)>>],
                    resultReply(pushUsage(<<textBlock(<<"No objects detected for segmentation.">>)>>,
                                          result.usage), FALSE))
        ELSE IF \E i \in 1..Len(result.masks) : ~IsSome(result.masks[i].mask)
        THEN throw(c1, "reply", <<"TypeError: undefined is not an object (evaluating 'm.mask.length')">>)
        ELSE LET content == <<textBlock(<<"Found ", ToString(Len(result.masks)), " segment(s):\n">>
                                        \o concat(maskInfo(result.masks)))>>
                 c2 == [c1 EXCEPT !.content = content]
             IN  IF Truthy(c.args.output_mask_path) THEN issueWrite(c2)
                 ELSE return(c2, resultReply(pushUsage(content, result.usage), FALSE))

\* the code from the return of the upstream call to the next await or the return
afterUpstream(c, response) ==
    CASE c.name = "gemini_generate" -> textReply(c, callGeminiResult(response))
      [] c.name = "gemini_messages" -> textReply(c, callGeminiResult(response))
      [] c.name = "gemini_image" -> imageReply(c, callGeminiImageResult(response))
      [] c.name = "gemini_upscale" -> imageReply(c, callGeminiUpscaleResult(response))
      [] c.name = "gemini_edit" -> imageReply(c, callGeminiEditResult(response))
      [] c.name = "gemini_svg" -> svgReply(c, callGeminiSvgResult(response))
      [] c.name = "gemini_segment" -> segmentReply(c, callGeminiSegmentResult(response))

\* the code from the return of a writeFile to the next await or the return
afterWrite(c) ==
    LET w == pendingWrite(c)
        c1 == [c EXCEPT !.writes = Append(@, w)]
    IN  CASE c.name \in {"gemini_image", "gemini_upscale", "gemini_edit"} ->
                imageLoop([c1 EXCEPT !.content = Append(@, textBlock(<<"Saved: ">> \o w.path)),
                                     !.i = @ + 1])
          [] c.name = "gemini_svg" ->
                return(c1, resultReply(
                    <<textBlock(withUsage(<<"Saved SVG: ">> \o w.path, c.result.usage))>>,
                    FALSE))
          [] c.name = "gemini_segment" ->
                LET content == Append(c.content,
                        textBlock(<<"Saved mask: ">> \o w.path \o <<" (label: ">>
                                  \o <<labelText(c.result.masks[1].label), ")">>))
                IN  return([c1 EXCEPT !.content = content],
                           resultReply(pushUsage(content, c.result.usage), FALSE))

----------------------------------------------------------------------------
(* The server: startup, the two request handlers and the completions of    *)
(* the awaits.  The file system and the upstream API are the environment:  *)
(* a read, an upstream call or a write succeeds or fails as it chooses.    *)

\* the values a credential variable takes: unset, empty, a key
EnvValues == {None, Some(<<>>), Some(<<"key-1">>)}
Envs ==
    [GEMINI_API_KEY : EnvValues,
     GOOGLE_GENERATIVE_AI_API_KEY : {None, Some(<<>>), Some(<<"key-2">>)}]

\* the key as process.env.GEMINI_API_KEY ?? process.env.GOOGLE_GENERATIVE_AI_API_KEY
apiKeyOfPresent(e) ==
    IF IsSome(e.GEMINI_API_KEY) THEN e.GEMINI_API_KEY ELSE e.GOOGLE_GENERATIVE_AI_API_KEY

\* index.ts:16
apiKeyOf(e) == OrElse(e.GEMINI_API_KEY, e.GOOGLE_GENERATIVE_AI_API_KEY)

Startup(e, slots) ==
    /\ env = e
    /\ startEnv = e
    /\ apiKey = apiKeyOf(e)
    /\ isConfigured = Truthy(apiKeyOf(e))
    /\ calls = [c \in slots |-> IdleCall]
    /\ listed = None
    /\ disk = <<>>

\* the tool list with the credential looked up again at each request
toolListOfEnv ==
    IF ~Truthy(apiKeyOf(env)) THEN <<"gemini_setup">> ELSE CapabilityTools

\* index.ts:144-148 and 158-168
toolList ==
    IF ~isConfigured THEN <<"gemini_setup">> ELSE CapabilityTools

\* listed: the last tool list sent, and process.env as it was then
ListTools ==
    /\ listed' = Some([tools |-> toolList, env |-> env])
    /\ UNCHANGED <<env, startEnv, apiKey, isConfigured, calls, disk>>

\* something outside the handlers changes process.env
SetEnv ==
    /\ env' \in Envs \ {env}
    /\ UNCHANGED <<startEnv, apiKey, isConfigured, calls, listed, disk>>

\* the CallTool handler of the configured branch registered whatever isConfigured
callToolUngated(request) == configuredCall(request.name, request.arguments, apiKey)

\* the handler registered at index.ts:150 or index.ts:170 takes a request
callTool(request) ==
    IF ~isConfigured THEN unconfiguredCall(request.name)
    ELSE configuredCall(request.name, request.arguments, apiKey)

CallTool(c, Requests) ==
    /\ calls[c].pc = "idle"
    /\ \E request \in Requests : calls' = [calls EXCEPT ![c] = callTool(request)]
    /\ UNCHANGED <<env, startEnv, apiKey, isConfigured, listed, disk>>

\* the transport sends the reply of a finished handler; its slot is free again
\* What the files are once no request is left is not followed any further:
\* disk is emptied, and any file may hold anything when the next request comes.
Deliver(c) ==
    /\ calls[c].pc = "done"
    /\ calls' = [calls EXCEPT ![c] = IdleCall]
    /\ disk' = IF \A d \in DOMAIN calls \ {c} : calls[d].pc = "idle" THEN <<>> ELSE disk
    /\ UNCHANGED <<env, startEnv, apiKey, isConfigured, listed>>

FileBytes == {"", "PNG-BYTES"}
ReadErrors == {<<"ENOENT: no such file or directory">>}
WriteErrors == {<<"EACCES: permission denied">>}
UpstreamErrors == {<<"429 quota exceeded">>, <<"fetch failed">>}

ReadInputOk(c) ==
    /\ calls[c].pc = "readInput"
    /\ \E bytes \in FileBytes :
          calls' = [calls EXCEPT ![c] = afterReadInput(calls[c], bytes, apiKey)]
    /\ UNCHANGED <<env, startEnv, apiKey, isConfigured, listed, disk>>

ReadMaskOk(c) ==
    /\ calls[c].pc = "readMask"
    /\ \E bytes \in FileBytes :
          calls' = [calls EXCEPT ![c] = afterReadMask(calls[c], bytes, apiKey)]
    /\ UNCHANGED <<env, startEnv, apiKey, isConfigured, listed, disk>>

\* a failed read treated as the read of an empty file
ReadFailIgnored(c) ==
    /\ calls[c].pc \in {"readInput", "readMask"}
    /\ \E error \in ReadErrors :
          calls' = [calls EXCEPT ![c] =
                       issueRequest([calls[c] EXCEPT
                           !.thrown = Some([step |-> "read", message |-> error]),
                           !.inputImage = Some(imageOf("", calls[c].reads[1]))], apiKey)]
    /\ UNCHANGED <<env, startEnv, apiKey, isConfigured, listed, disk>>

ReadFail(c) ==
    /\ calls[c].pc \in {"readInput", "readMask"}
    /\ \E error \in ReadErrors : calls' = [calls EXCEPT ![c] = throw(calls[c], "read", error)]
    /\ UNCHANGED <<env, startEnv, apiKey, isConfigured, listed, disk>>

\* Responses: the responses the upstream may give, for each tool
UpstreamOk(c, Responses) ==
    /\ calls[c].pc = "upstream"
    /\ \E response \in Responses[calls[c].name] :
          calls' = [calls EXCEPT ![c] =
                       afterUpstream([calls[c] EXCEPT !.response = Some(response)], response)]
    /\ UNCHANGED <<env, startEnv, apiKey, isConfigured, listed, disk>>

\* the upstream call tried once more after its first failure
UpstreamFailRetried(c) ==
    /\ calls[c].pc = "upstream"
    /\ \E error \in UpstreamErrors :
          calls' = [calls EXCEPT ![c] =
                       IF Len(calls[c].requests) < 2 THEN issueRequest(calls[c], apiKey)
                       ELSE throw(calls[c], "upstream", error)]
    /\ UNCHANGED <<env, startEnv, apiKey, isConfigured, listed, disk>>

UpstreamFail(c) ==
    /\ calls[c].pc = "upstream"
    /\ \E error \in UpstreamErrors :
          calls' = [calls EXCEPT ![c] = throw(calls[c], "upstream", error)]
    /\ UNCHANGED <<env, startEnv, apiKey, isConfigured, listed, disk>>

\* the other requests whose writeFile to this path has not settled yet
inFlight(c, path) ==
    {d \in DOMAIN calls \ {c} :
        calls[d].pc = "write" /\ pendingWrite(calls[d]).path = path}

\* writeFile is open (truncating), write, close, each on the thread pool.
\* Two writeFile calls on one path that are in flight together are not
\* ordered: when the second of them settles the file may hold its data, the
\* data of the first (whose open came last), or the head of one followed by
\* the tail of the other ("torn").
mixed(data, other) == IF data = other THEN data ELSE <<"torn">>

written(c, w) ==
    LET others == inFlight(c, w.path)
        lapped == w.path \in DOMAIN disk /\ c \in disk[w.path].open
    IN  {w.data}
        \cup {mixed(w.data, pendingWrite(calls[d]).data) : d \in others}
        \cup (IF lapped
              THEN {disk[w.path].content, mixed(w.data, disk[w.path].content)}
              ELSE {})

\* the writer c has settled: it is in flight on no file any more
settled(c) == [p \in DOMAIN disk |-> [disk[p] EXCEPT !.open = @ \ {c}]]

\* the file at w.path once the writeFile of c has settled with this content;
\* by is the writer that settled last, writers are all that had it open
stored(c, w, content) ==
    [p \in DOMAIN disk \cup {w.path} |->
        IF p = w.path
        THEN [content |-> content, by |-> c, open |-> inFlight(c, w.path),
              writers |-> {c} \cup inFlight(c, w.path)
                          \cup (IF p \in DOMAIN disk THEN disk[p].writers ELSE {})]
        ELSE settled(c)[p]]

\* every request writes the image of the response that came in last
WriteOkShared(c) ==
    /\ calls[c].pc = "write"
    /\ calls' = [calls EXCEPT ![c] = afterWrite(calls[c])]
    /\ \E d \in DOMAIN calls :
          /\ calls[d].result.images # <<>>
          /\ disk' = stored(c, pendingWrite(calls[c]),
                            <<fromBase64(calls[d].result.images[1].data)>>)
    /\ UNCHANGED <<env, startEnv, apiKey, isConfigured, listed>>

WriteOk(c) ==
    /\ calls[c].pc = "write"
    /\ calls' = [calls EXCEPT ![c] = afterWrite(calls[c])]
    /\ LET w == pendingWrite(calls[c])
       IN  \E content \in written(c, w) : disk' = stored(c, w, content)
    /\ UNCHANGED <<env, startEnv, apiKey, isConfigured, listed>>

\* the failed write undone together with the writes before it
WriteFailRolledBack(c) ==
    /\ calls[c].pc = "write"
    /\ \E error \in WriteErrors : calls' = [calls EXCEPT ![c] = throw(calls[c], "write", error)]
    /\ disk' = [p \in DOMAIN disk \ {w.path : w \in Range(calls[c].writes)} |-> settled(c)[p]]
    /\ UNCHANGED <<env, startEnv, apiKey, isConfigured, listed>>

\* the writeFile is rejected (at its open): the file is left as it is
WriteFail(c) ==
    /\ calls[c].pc = "write"
    /\ \E error \in WriteErrors : calls' = [calls EXCEPT ![c] = throw(calls[c], "write", error)]
    /\ disk' = settled(c)
    /\ UNCHANGED <<env, startEnv, apiKey, isConfigured, listed>>

----------------------------------------------------------------------------
(* The requests and the responses the model is checked over.               *)

MaxParts == 2      \* parts in a response candidate
MaxImages == 2     \* images in an upscaleImage or editImage response
MaxPathLen == 3    \* characters in an enumerated output path
MaxPieces == 3     \* pieces in an enumerated SVG response text
MaxTokens == 3     \* tokens in an enumerated segmentation response text

Opt(S) == {None} \cup {Some(x) : x \in S}
\* the values around a closed interval: outside, on the boundaries, inside
Probe(lo, hi) == {lo - 1, lo, (lo + hi) \div 2, hi, hi + 1}
SeqsUpTo(S, n) == UNION {[1..k -> S] : k \in 0..n}

PathChars == {"a", ".", "/"}
InPng == <<"i", "n", ".", "p", "n", "g">>
InJpg == <<"d", ".", "d", "/", "i", "n", ".", "J", "P", "G">>
MaskPath == <<"m", ".", "w", "e", "b", "p">>
OutPlain == <<"o", "u", "t">>
OutDotSlash == <<".", "/", "o", "u", "t">>
OutWithExt == <<"o", "u", "t", ".", "p", "n", "g">>
OutDottedDir == <<"v", ".", "2", "/", "o", "u", "t">>
OutSvg == <<"o", ".", "s", "v", "g">>
InNoExt == <<"i", "n">>
\* an input path whose extension is the name of a member of Object.prototype
InCtor == <<"i", "n", ".", "constructor">>
FewOutPaths == {<<>>, OutPlain, OutDotSlash, OutWithExt, OutDottedDir}

GenerateArgs ==
    [prompt |-> Some(<<"Say hello">>), model |-> None, instructions |-> None,
     thinking_level |-> None, include_thoughts |-> None, max_tokens |-> None,
     temperature |-> None, top_p |-> None]
MessagesArgs ==
    [messages |-> Some(<<[role |-> "user", content |-> <<"hi">>]>>), model |-> None,
     instructions |-> None, thinking_level |-> None, include_thoughts |-> None,
     max_tokens |-> None, temperature |-> None, top_p |-> None]
ImageArgs ==
    [prompt |-> Some(<<"a red fox">>), input_image |-> None, output_path |-> None,
     image_size |-> None, aspect_ratio |-> None, negative_prompt |-> None,
     num_images |-> None, guidance_scale |-> None, seed |-> None]
UpscaleArgs ==
    [input_image |-> Some(InPng), output_path |-> None, output_format |-> None,
     jpeg_quality |-> None, upscale_factor |-> None]
EditArgs ==
    [prompt |-> Some(<<"remove the hat">>), input_image |-> Some(InPng),
     mask_image |-> None, output_path |-> None, edit_mode |-> None,
     output_format |-> None, jpeg_quality |-> None, negative_prompt |-> None,
     num_images |-> None, guidance_scale |-> None, seed |-> None]
SvgArgs == [prompt |-> Some(<<"a logo">>), output_path |-> None, instructions |-> None]
SegmentArgs == [input_image |-> Some(InPng), prompt |-> None, output_mask_path |-> None]

Messages ==
    SeqsUpTo({[role |-> "user", content |-> <<"hi">>],
              [role |-> "assistant", content |-> <<"hello">>],
              [role |-> "system", content |-> <<"be brief">>],
              [role |-> "system", content |-> <<"be kind">>]}, 2)
    \cup {<<[role |-> "user", content |-> <<"hi">>],
            [role |-> "system", content |-> <<"be brief">>],
            [role |-> "assistant", content |-> <<"hello">>]>>,
          <<[role |-> "system", content |-> <<>>],
            [role |-> "assistant", content |-> <<"hello">>],
            [role |-> "system", content |-> <<"be kind">>],
            [role |-> "user", content |-> <<"hi">>]>>}

GenerateArguments ==
    {[GenerateArgs EXCEPT !.temperature = t, !.top_p = p] :
        t \in Opt(Probe(0, 2)), p \in Opt(Probe(0, 1))}
    \cup {[GenerateArgs EXCEPT !.prompt = x] : x \in {None, Some(<<>>)}}
    \cup {[GenerateArgs EXCEPT !.model = Some(m)] : m \in {<<>>, <<"gemini-2.5-pro">>}}
    \cup {[GenerateArgs EXCEPT !.instructions = Some(<<"be brief">>), !.max_tokens = Some(64),
                               !.thinking_level = Some(l), !.include_thoughts = Some(TRUE)] :
            l \in {"low", "max"}}

MessagesArguments ==
    {[MessagesArgs EXCEPT !.temperature = t] : t \in Opt(Probe(0, 2))}
    \cup {[MessagesArgs EXCEPT !.top_p = p] : p \in Opt(Probe(0, 1))}
    \cup {[MessagesArgs EXCEPT !.messages = Some(m), !.instructions = i] :
            m \in Messages, i \in {None, Some(<<>>), Some(<<"be formal">>)}}
    \cup {[MessagesArgs EXCEPT !.messages = m] :
            m \in {None, Some(<<[role |-> "tool", content |-> <<"x">>]>>)}}

ImageArguments ==
    {[ImageArgs EXCEPT !.num_images = n] : n \in Opt(Probe(1, 4))}
    \cup {[ImageArgs EXCEPT !.output_path = Some(o)] : o \in FewOutPaths}
    \cup {[ImageArgs EXCEPT !.input_image = Some(i)] : i \in {<<>>, InPng, InJpg}}
    \cup {[ImageArgs EXCEPT !.image_size = Some(z), !.aspect_ratio = Some(r), !.seed = d] :
            z \in {"2K", "8K"}, r \in {"16:9", "7:1"}, d \in {None, Some(0), Some(7)}}
    \cup {[ImageArgs EXCEPT !.negative_prompt = Some(<<"no text">>)],
          [ImageArgs EXCEPT !.guidance_scale = Some(9)],
          [ImageArgs EXCEPT !.prompt = None]}

UpscaleArguments ==
    {[UpscaleArgs EXCEPT !.jpeg_quality = q] : q \in Opt(Probe(0, 100))}
    \cup {[UpscaleArgs EXCEPT !.output_path = Some(o)] :
            o \in SeqsUpTo(PathChars, MaxPathLen) \cup FewOutPaths}
    \cup {[UpscaleArgs EXCEPT !.input_image = i] :
            i \in {None, Some(<<>>), Some(InJpg), Some(InNoExt), Some(InCtor)}}
    \cup {[UpscaleArgs EXCEPT !.output_format = Some(f), !.upscale_factor = Some(u)] :
            f \in {"webp", "tiff"}, u \in {"x4", "x8"}}

EditArguments ==
    {[EditArgs EXCEPT !.jpeg_quality = q] : q \in Opt(Probe(0, 100))}
    \cup {[EditArgs EXCEPT !.num_images = n] : n \in Opt(Probe(1, 4))}
    \cup {[EditArgs EXCEPT !.mask_image = m, !.output_path = o] :
            m \in {None, Some(<<>>), Some(MaskPath)}, o \in {None, Some(OutPlain)}}
    \cup {[EditArgs EXCEPT !.edit_mode = Some(e), !.output_format = Some("jpeg"),
                           !.negative_prompt = Some(<<"no hat">>), !.seed = Some(7),
                           !.guidance_scale = Some(9)] :
            e \in {"inpaint", "outpaint", "erase"}}
    \cup {[EditArgs EXCEPT !.prompt = None], [EditArgs EXCEPT !.input_image = None]}

SvgArguments ==
    {[SvgArgs EXCEPT !.output_path = o, !.instructions = i] :
        o \in {None, Some(<<>>), Some(OutSvg)}, i \in {None, Some(<<"flat style">>)}}
    \cup {[SvgArgs EXCEPT !.prompt = None]}

SegmentArguments ==
    {[SegmentArgs EXCEPT !.output_mask_path = o, !.prompt = q] :
        o \in {None, Some(<<>>), Some(MaskPath)}, q \in {None, Some(<<"only the cat">>)}}
    \cup {[SegmentArgs EXCEPT !.input_image = None]}

ArgumentsOf(name) ==
    CASE name = "gemini_generate" -> GenerateArguments
      [] name = "gemini_messages" -> MessagesArguments
      [] name = "gemini_image" -> ImageArguments
      [] name = "gemini_upscale" -> UpscaleArguments
      [] name = "gemini_edit" -> EditArguments
      [] name = "gemini_svg" -> SvgArguments
      [] name = "gemini_segment" -> SegmentArguments

OtherNames == {"gemini_setup", "gemini_video"}
AllNames == Range(CapabilityTools) \cup OtherNames

\* every request of the model
Requests ==
    UNION {{[name |-> n, arguments |-> Some(a)] : a \in ArgumentsOf(n)} :
              n \in Range(CapabilityTools)}
    \cup {[name |-> n, arguments |-> None] : n \in AllNames}
    \cup {[name |-> n, arguments |-> Some(GenerateArgs)] : n \in OtherNames}

\* one plain request for each name
FewRequests ==
    {[name |-> "gemini_generate", arguments |-> Some(GenerateArgs)],
     [name |-> "gemini_messages", arguments |-> Some(MessagesArgs)],
     [name |-> "gemini_image", arguments |-> Some([ImageArgs EXCEPT !.output_path = Some(OutPlain)])],
     [name |-> "gemini_upscale", arguments |-> Some(UpscaleArgs)],
     [name |-> "gemini_edit", arguments |-> Some([EditArgs EXCEPT !.mask_image = Some(MaskPath)])],
     [name |-> "gemini_svg", arguments |-> Some(SvgArgs)],
     [name |-> "gemini_segment", arguments |-> Some(SegmentArgs)],
     [name |-> "gemini_generate", arguments |-> Some([GenerateArgs EXCEPT !.temperature = Some(3)])]}
    \cup {[name |-> n, arguments |-> Some(GenerateArgs)] : n \in OtherNames}

TextPart(text) == [text |-> Some(text), inlineData |-> None, thought |-> FALSE]
ThoughtPart(text) == [text |-> Some(text), inlineData |-> None, thought |-> TRUE]
InlinePart(mimeType, data) ==
    [text |-> None, inlineData |-> Some([mimeType |-> mimeType, data |-> data]),
     thought |-> FALSE]

Usages ==
    {None,
     Some([promptTokenCount |-> Some(3), candidatesTokenCount |-> Some(5),
           totalTokenCount |-> Some(8)]),
     Some([promptTokenCount |-> None, candidatesTokenCount |-> Some(0),
           totalTokenCount |-> None])}

OtherCandidate ==
    [parts |-> Some(<<TextPart(<<"second candidate">>),
                      InlinePart(Some("image/png"), Some(toBase64("IMG-9")))>>)]

\* the candidate lists: none, empty, a first candidate without parts, a first
\* candidate with each part list, alone or followed by another candidate
CandidatesOver(partLists) ==
    {None, Some(<<>>), Some(<<[parts |-> None]>>)}
    \cup {Some(<<[parts |-> Some(ps)]>>) : ps \in partLists}
    \cup {Some(<<[parts |-> Some(ps)], OtherCandidate>>) :
            ps \in {q \in partLists : Len(q) <= 1}}

ContentResponses(partLists, usages, texts) ==
    {[candidates |-> c, usageMetadata |-> u, text |-> t] :
        c \in CandidatesOver(partLists), u \in usages, t \in texts}

TextParts ==
    {TextPart(<<"Hello">>), TextPart(<<", world">>), TextPart(<<>>),
     ThoughtPart(<<"Let me think.">>),
     InlinePart(Some("image/png"), Some(toBase64("IMG-1")))}

ImageParts ==
    {TextPart(<<"Here is your image.">>), TextPart(<<"Enjoy!">>),
     InlinePart(Some("image/png"), Some(toBase64("IMG-1"))),
     InlinePart(Some("image/webp"), Some(toBase64("IMG-2"))),
     InlinePart(Some("image/jpeg"), Some(toBase64("IMG-3"))),
     InlinePart(None, None)}

GeneratedImages ==
    {[image |-> Some([imageBytes |-> Some(toBase64("IMG-1")), mimeType |-> Some("image/png")])],
     [image |-> Some([imageBytes |-> Some(toBase64("IMG-2")), mimeType |-> Some("image/webp")])],
     [image |-> Some([imageBytes |-> Some(toBase64("IMG-3")), mimeType |-> Some("image/jpeg")])],
     [image |-> Some([imageBytes |-> Some(toBase64("IMG-4")), mimeType |-> None])],
     [image |-> Some([imageBytes |-> None, mimeType |-> Some("image/png")])],
     [image |-> None]}

ImagenResponses ==
    {[generatedImages |-> g] : g \in Opt(SeqsUpTo(GeneratedImages, MaxImages))}

\* the SVG texts: every sequence of at most MaxPieces of these pieces
SvgPieces == {Fence, <<"s", "v", "g">>, <<"x", "m", "l">>, <<"\n">>, <<"<svg/>">>}
SvgTexts == {concat(ps) : ps \in SeqsUpTo(SvgPieces, MaxPieces)}

SvgResponses ==
    ContentResponses({<<TextPart(t)>> : t \in SvgTexts}, Usages, {None})
    \cup ContentResponses({<<TextPart(Fence \o <<"s", "v">>), TextPart(<<"g", "<svg/>">> \o Fence)>>},
                          {None}, {None})

\* the segmentation texts: every sequence of at most MaxTokens of these tokens,
\* and a few longer ones, each bare or inside a fence
JsonTokens == {"[", "]", ",", "{cat}", "not json"}
JsonTexts ==
    SeqsUpTo(JsonTokens, MaxTokens)
    \cup {<<"[", "{cat}", ",", "{dog}", "]">>, <<"[", "{uri}", ",", "{cat}", "]">>,
          <<"[", "{cat}", ",", "{bare}", "]">>, <<"[", "{bare}", "]">>,
          <<"[", "{empty}", "]">>, <<"[", "5", "]">>, <<"[", "[", "{cat}", "]", "]">>,
          <<"{cat}">>, <<"null">>, <<"[", " ", "{dog}", "\n", "]">>}
SegmentTexts ==
    JsonTexts
    \cup {FenceJson \o <<"\n">> \o t \o <<"\n">> \o Fence : t \in JsonTexts}
    \cup {Fence \o t \o Fence \o <<" ">> : t \in JsonTexts}

SegmentResponses ==
    ContentResponses({<<TextPart(t)>> : t \in SegmentTexts}, {None}, {None})
    \cup ContentResponses({<<TextPart(<<"[">>), TextPart(<<"{cat}", "]">>)>>,
                           <<TextPart(<<"not json">>)>>}, Usages, {None})

\* every response of the model to the upstream request of each tool
AllResponses ==
    LET texts == ContentResponses(SeqsUpTo(TextParts, MaxParts), Usages,
                                  {None, Some(<<>>), Some(<<"top-level text">>)})
    IN  [gemini_generate |-> texts,
         gemini_messages |-> texts,
         gemini_image |-> ContentResponses(SeqsUpTo(ImageParts, MaxParts), Usages, {None}),
         gemini_upscale |-> ImagenResponses,
         gemini_edit |-> ImagenResponses,
         gemini_svg |-> SvgResponses,
         gemini_segment |-> SegmentResponses]

\* one plain response for each tool
FewResponses ==
    LET plain == ContentResponses({<<TextPart(<<"Hello">>),
                                     InlinePart(Some("image/png"), Some(toBase64("IMG-1")))>>},
                                  {None}, {None})
        images == {[generatedImages |-> Some(<<g>>)] : g \in GeneratedImages}
    IN  [gemini_generate |-> plain,
         gemini_messages |-> plain,
         gemini_image |-> plain,
         gemini_upscale |-> images,
         gemini_edit |-> images,
         gemini_svg |-> ContentResponses({<<TextPart(<<"<svg/>">>)>>}, {None}, {None}),
         gemini_segment |->
            ContentResponses({<<TextPart(<<"[", "{cat}", "]">>)>>}, {None}, {None})]

----------------------------------------------------------------------------
(* Specifications                                                          *)

ConfiguredEnv == [GEMINI_API_KEY |-> Some(<<"key-1">>), GOOGLE_GENERATIVE_AI_API_KEY |-> None]

\* one request at a time
OneSlot == {1}

\* the configured server, one call at a time, over every request and response
Init == Startup(ConfiguredEnv, OneSlot)

Next ==
    \/ \E c \in OneSlot : CallTool(c, Requests)
    \/ \E c \in OneSlot : ReadInputOk(c)
    \/ \E c \in OneSlot : ReadMaskOk(c)
    \/ \E c \in OneSlot : ReadFail(c)
    \/ \E c \in OneSlot : UpstreamOk(c, AllResponses)
    \/ \E c \in OneSlot : UpstreamFail(c)
    \/ \E c \in OneSlot : WriteOk(c)
    \/ \E c \in OneSlot : WriteFail(c)
    \/ \E c \in OneSlot : Deliver(c)

Spec == Init /\ [][Next]_vars

\* the server under every environment, with the environment changing under it
InitGate == \E e \in Envs : Startup(e, OneSlot)

NextGate ==
    \/ ListTools
    \/ SetEnv
    \/ \E c \in OneSlot : CallTool(c, FewRequests)
    \/ \E c \in OneSlot : ReadInputOk(c)
    \/ \E c \in OneSlot : ReadMaskOk(c)
    \/ \E c \in OneSlot : ReadFail(c)
    \/ \E c \in OneSlot : UpstreamOk(c, FewResponses)
    \/ \E c \in OneSlot : UpstreamFail(c)
    \/ \E c \in OneSlot : WriteOk(c)
    \/ \E c \in OneSlot : WriteFail(c)
    \/ \E c \in OneSlot : Deliver(c)

SpecGate == InitGate /\ [][NextGate]_vars

\* two requests at a time
TwoSlots == {1, 2}

\* requests that save what they produce and read no file
PairRequests ==
    {[name |-> "gemini_image", arguments |-> Some([ImageArgs EXCEPT !.output_path = Some(o)])] :
        o \in {OutPlain, OutWithExt}}

\* one image, differing in data and in type
PairResponses ==
    [gemini_image |->
        {[candidates |-> Some(<<[parts |-> Some(ps)]>>), usageMetadata |-> None, text |-> None] :
            ps \in {<<InlinePart(Some("image/png"), Some(toBase64("IMG-1")))>>,
                     <<InlinePart(Some("image/png"), Some(toBase64("IMG-2")))>>,
                     <<InlinePart(Some("image/webp"), Some(toBase64("IMG-2")))>>}}]

\* the configured server with two requests in flight at a time; none of
\* PairRequests reads a file, so no read is ever pending
InitPair == Startup(ConfiguredEnv, TwoSlots)

NextPair ==
    \/ \E c \in TwoSlots : CallTool(c, PairRequests)
    \/ \E c \in TwoSlots : UpstreamOk(c, PairResponses)
    \/ \E c \in TwoSlots : UpstreamFail(c)
    \/ \E c \in TwoSlots : WriteOk(c)
    \/ \E c \in TwoSlots : WriteFail(c)
    \/ \E c \in TwoSlots : Deliver(c)

SpecPair == InitPair /\ [][NextPair]_vars

----------------------------------------------------------------------------
(* Properties                                                              *)

Done(c) == calls[c].pc = "done"
Reply(c) == Get(calls[c].reply)
CredentialAtStartup ==
    Truthy(startEnv.GEMINI_API_KEY) \/ Truthy(startEnv.GOOGLE_GENERATIVE_AI_API_KEY)
SevenTools ==
    {"gemini_generate", "gemini_messages", "gemini_image", "gemini_upscale",
     "gemini_edit", "gemini_svg", "gemini_segment"}

\* C1: started without a credential, the server lists exactly gemini_setup;
\* a call of gemini_setup returns the static setup text; a call of any other
\* name ends at once in a MethodNotFound protocol error, with no upstream
\* request, no file read and no file write.
C1_UnconfiguredServesOnlySetup ==
    ~CredentialAtStartup =>
        /\ IsSome(listed) => Get(listed).tools = <<"gemini_setup">>
        /\ \A c \in DOMAIN calls :
              calls[c].pc # "idle" =>
                 /\ Done(c)
                 /\ calls[c].steps = <<"reply">>
                 /\ calls[c].requests = <<>>
                 /\ calls[c].reads = <<>>
                 /\ calls[c].writes = <<>>
                 /\ IF calls[c].name = "gemini_setup"
                    THEN /\ Reply(c).kind = "result"
                         /\ ~Reply(c).isError
                         /\ Reply(c).content = <<[type |-> "text", text |-> SETUP_INSTRUCTIONS]>>
                    ELSE /\ Reply(c).kind = "error"
                         /\ Reply(c).code = "MethodNotFound"

C1_Witness ==
    /\ ~CredentialAtStartup
    /\ IsSome(listed)
    /\ \E c \in DOMAIN calls :
          /\ Done(c)
          /\ calls[c].name = "gemini_generate"
          /\ Reply(c).kind = "error"
          /\ Reply(c).code = "MethodNotFound"

\* C2: every tool list the server sends is the seven capability tools when
\* a credential was present at startup and gemini_setup alone otherwise,
\* whatever requests came before and whatever process.env holds by then.
C2_ToolSetFixedAtStartup ==
    IsSome(listed) =>
        /\ Range(Get(listed).tools) =
              IF CredentialAtStartup THEN SevenTools ELSE {"gemini_setup"}
        /\ Len(Get(listed).tools) = Cardinality(Range(Get(listed).tools))

C2_Witness ==
    /\ IsSome(listed)
    /\ (Truthy(Get(listed).env.GEMINI_API_KEY)
        \/ Truthy(Get(listed).env.GOOGLE_GENERATIVE_AI_API_KEY)) # CredentialAtStartup
    /\ \E c \in DOMAIN calls : Done(c)

\* C3: a call of a capability tool in which nothing failed (valid
\* arguments, reads, upstream call and writes that succeed) returns a reply
\* with at least one content block, whatever the upstream response.
C3_EveryReplyHasContent ==
    \A c \in DOMAIN calls :
        (Done(c) /\ calls[c].name \in SevenTools /\ ~IsSome(calls[c].thrown)) =>
            /\ Reply(c).kind = "result"
            /\ Len(Reply(c).content) >= 1

BoundedParams ==
    {<<"temperature", 0, 2>>, <<"top_p", 0, 1>>, <<"jpeg_quality", 0, 100>>,
     <<"num_images", 1, 4>>}
Given(a, b) == b[1] \in DOMAIN a /\ IsSome(a[b[1]])
OutsideInterval(a) ==
    \E b \in BoundedParams : Given(a, b) /\ (Get(a[b[1]]) < b[2] \/ Get(a[b[1]]) > b[3])
OnBoundary(a) ==
    \E b \in BoundedParams : Given(a, b) /\ Get(a[b[1]]) \in {b[2], b[3]}

\* C4: a call with temperature, top_p, jpeg_quality or num_images outside its
\* closed interval ends in an error reply without any file read, upstream
\* request or file write; a call with a value on a boundary (and none
\* outside) passes validation and goes on to its first read or request.
C4_BoundedParameters ==
    \A c \in DOMAIN calls :
        (calls[c].pc # "idle" /\ calls[c].name \in SevenTools /\ IsSome(calls[c].arguments)) =>
            LET a == Get(calls[c].arguments)
            IN  /\ OutsideInterval(a) =>
                      /\ Done(c)
                      /\ Reply(c).kind = "result"
                      /\ Reply(c).isError
                      /\ calls[c].steps = <<"parse", "reply">>
                      /\ calls[c].reads = <<>>
                      /\ calls[c].requests = <<>>
                      /\ calls[c].writes = <<>>
                /\ (~OutsideInterval(a) /\ OnBoundary(a)) =>
                      /\ Len(calls[c].steps) >= 2
                      /\ calls[c].steps[1] = "parse"
                      /\ calls[c].steps[2] \in {"read", "request"}

C4_Witness ==
    \E c \in DOMAIN calls :
        /\ Done(c)
        /\ calls[c].name = "gemini_edit"
        /\ calls[c].arguments = Some([EditArgs EXCEPT !.num_images = Some(5)])
        /\ Reply(c).isError

\* C5: whenever an Error is thrown during a call (at validation, at a file
\* read, at the upstream request, at a file write), the handler still
\* returns: the reply is a result with isError = true and exactly one text
\* block that carries the Error's message, and the reply can be delivered,
\* after which the server takes the next request.
C5_FailuresBecomeErrorReplies ==
    \A c \in DOMAIN calls :
        IsSome(calls[c].thrown) =>
            /\ Done(c)
            /\ Reply(c).kind = "result"
            /\ Reply(c).isError = TRUE
            /\ Reply(c).content =
                  <<[type |-> "text",
                     text |-> <<"Gemini API error: ">> \o Get(calls[c].thrown).message]>>
            /\ ENABLED Deliver(c)

C5_Witness ==
    \E c \in DOMAIN calls :
        /\ Done(c)
        /\ IsSome(calls[c].thrown)
        /\ Get(calls[c].thrown).step = "write"
        /\ Len(calls[c].writes) = 1

ResponseText(c) == textOfParts(firstParts(Get(calls[c].response)))

\* C6: the fence cleanup of callGeminiSvg and of callGeminiSegment is
\* idempotent: applied to its own output, it leaves it unchanged.
C6_FenceStrippingIdempotent ==
    \A c \in DOMAIN calls :
        (Done(c) /\ IsSome(calls[c].response)) =>
            /\ calls[c].name = "gemini_svg" =>
                  svgCleanup(svgCleanup(ResponseText(c))) = svgCleanup(ResponseText(c))
            /\ calls[c].name = "gemini_segment" =>
                  jsonCleanup(jsonCleanup(ResponseText(c))) = jsonCleanup(ResponseText(c))

ImageTools == {"gemini_image", "gemini_upscale", "gemini_edit"}
\* an image tool call with an output path that ended without any failure
SavedAll(c) ==
    /\ Done(c)
    /\ calls[c].name \in ImageTools
    /\ ~IsSome(calls[c].thrown)
    /\ Truthy(calls[c].args.output_path)
Produced(c) == calls[c].result.images
IndexSuffix(c, i) == IF Len(Produced(c)) > 1 THEN <<"_", ToString(i)>> ELSE <<>>
Extension(c, i) ==
    CASE Produced(c)[i].mimeType = "image/png" -> <<".", "p", "n", "g">>
      [] Produced(c)[i].mimeType = "image/webp" -> <<".", "w", "e", "b", "p">>
      [] OTHER -> <<".", "j", "p", "g">>
SavedBlocks(c) ==
    SelectSeq(Reply(c).content,
              LAMBDA b : b.type = "text" /\ startsWith(b.text, <<"Saved: ">>))

NoExtension(p) ==
    LET slashes == {i \in 1..Len(p) : p[i] = "/"}
        first == IF slashes = {} THEN 1 ELSE Max(slashes) + 1
    IN  \A i \in first..Len(p) : p[i] # "."

\* C8: when output_path has no file extension, image i is saved at exactly
\* that path followed by _i (only when several images are produced) and the
\* extension of its mime type, whatever dots its directory part holds.
C8_ExtensionlessPathKept ==
    \A c \in DOMAIN calls :
        (SavedAll(c) /\ NoExtension(Get(calls[c].args.output_path))) =>
            \A i \in 1..Len(calls[c].writes) :
                calls[c].writes[i].path =
                    resolve(Get(calls[c].args.output_path)
                            \o IndexSuffix(c, i) \o Extension(c, i))

\* C9: a gemini_segment call whose response text, once the fences are
\* cleaned off, fails JSON.parse has an empty mask list, and its reply is no
\* error reply, says that no objects were detected, and no mask file is
\* written.
C9_UnparsableTextGivesNoMasks ==
    \A c \in DOMAIN calls :
        (/\ Done(c)
         /\ calls[c].name = "gemini_segment"
         /\ IsSome(calls[c].response)
         /\ ~JSONparse(jsonCleanup(ResponseText(c))).ok) =>
            /\ calls[c].result.masks = <<>>
            /\ Reply(c).kind = "result"
            /\ ~Reply(c).isError
            /\ Len(Reply(c).content) >= 1
            /\ Reply(c).content[1] =
                  [type |-> "text", text |-> <<"No objects detected for segmentation.">>]
            /\ calls[c].writes = <<>>
            /\ "write" \notin Range(calls[c].steps)

C9_Witness ==
    \E c \in DOMAIN calls :
        /\ Done(c)
        /\ calls[c].name = "gemini_segment"
        /\ ~IsSome(calls[c].thrown)
        /\ IsSome(calls[c].response)
        /\ ResponseText(c) = <<"[", "{cat}", ",">>
        /\ Truthy(calls[c].args.output_mask_path)

\* the texts of the text parts of the first candidate, in order
FirstCandidateTexts(response) ==
    IF ~IsSome(response.candidates) THEN <<>>
    ELSE IF Get(response.candidates) = <<>> THEN <<>>
    ELSE IF ~IsSome(Get(response.candidates)[1].parts) THEN <<>>
    ELSE LET ps == SelectSeq(Get(Get(response.candidates)[1].parts),
                             LAMBDA part : IsSome(part.text))
         IN  [i \in 1..Len(ps) |-> Get(ps[i].text)]

\* C10: gemini_generate called with a prompt alone sends one request that
\* carries the prompt under the model gemini-3-pro-preview; the content it
\* returns is the texts of the text parts of the first candidate, one after
\* the other (empty when there is none), whatever the response's top-level
\* text, and the reply's text block begins with it.
C10_GenerateReturnsCandidateText ==
    \A c \in DOMAIN calls :
        (calls[c].name = "gemini_generate" /\ calls[c].arguments = Some(GenerateArgs)) =>
            /\ Len(calls[c].requests) = 1
            /\ calls[c].requests[1].api = "generateContent"
            /\ calls[c].requests[1].contents = <<"Say hello">>
            /\ calls[c].requests[1].model = Some(<<"gemini-3-pro-preview">>)
            /\ (Done(c) /\ IsSome(calls[c].response)) =>
                  LET text == concat(FirstCandidateTexts(Get(calls[c].response)))
                  IN  /\ calls[c].result.content = text
                      /\ Len(Reply(c).content) = 1
                      /\ startsWith(Reply(c).content[1].text, text)
                      /\ ~IsSome(Get(calls[c].response).usageMetadata) =>
                            Reply(c).content[1].text = text

C10_Witness ==
    \E c \in DOMAIN calls :
        /\ Done(c)
        /\ calls[c].name = "gemini_generate"
        /\ calls[c].arguments = Some(GenerateArgs)
        /\ IsSome(calls[c].response)
        /\ Get(calls[c].response).text = Some(<<"top-level text">>)
        /\ calls[c].result.content = <<"Hello", ", world">>

\* the parts of the first candidate of the response of call c
FirstCandidateParts(c) ==
    LET response == Get(calls[c].response)
    IN  IF ~IsSome(response.candidates) THEN <<>>
        ELSE IF Get(response.candidates) = <<>> THEN <<>>
        ELSE IF ~IsSome(Get(response.candidates)[1].parts) THEN <<>>
        ELSE Get(Get(response.candidates)[1].parts)
\* its text parts: the parts that carry a non-empty text and no inline data
CaptionParts(c) ==
    SelectSeq(FirstCandidateParts(c),
              LAMBDA part : ~IsSome(part.inlineData) /\ Truthy(part.text))
InlineParts(c) == SelectSeq(FirstCandidateParts(c), LAMBDA part : IsSome(part.inlineData))

\* C11: the caption of a gemini_image reply is the texts of all the text
\* parts of the first candidate, one after the other.
C11_CaptionHoldsEveryTextPart ==
    \A c \in DOMAIN calls :
        (/\ Done(c)
         /\ calls[c].name = "gemini_image"
         /\ ~IsSome(calls[c].thrown)
         /\ CaptionParts(c) # <<>>) =>
            /\ Len(Reply(c).content) >= 1
            /\ Reply(c).content[1] =
                  [type |-> "text",
                   text |-> concat([i \in 1..Len(CaptionParts(c)) |->
                                       Get(CaptionParts(c)[i].text)])]

\* C12: the images of a gemini_image call are the inline-data parts of the
\* first candidate, one entry each, in order, with the part's data and its
\* mime type, image/png when it declares none; text parts and the parts of
\* other candidates add nothing.
C12_OneImagePerInlinePart ==
    \A c \in DOMAIN calls :
        (Done(c) /\ calls[c].name = "gemini_image" /\ IsSome(calls[c].response)) =>
            /\ Len(Produced(c)) = Len(InlineParts(c))
            /\ \A i \in 1..Len(InlineParts(c)) :
                  LET inline == Get(InlineParts(c)[i].inlineData)
                  IN  /\ Produced(c)[i].mimeType =
                            IF IsSome(inline.mimeType) THEN Get(inline.mimeType)
                            ELSE "image/png"
                      /\ Produced(c)[i].data =
                            IF IsSome(inline.data) THEN Get(inline.data) ELSE <<>>

C12_Witness ==
    \E c \in DOMAIN calls :
        /\ Done(c)
        /\ calls[c].name = "gemini_image"
        /\ IsSome(calls[c].response)
        /\ Len(FirstCandidateParts(c)) = 2
        /\ Len(InlineParts(c)) = 1
        /\ ~IsSome(Get(InlineParts(c)[1].inlineData).mimeType)
        /\ Produced(c) = <<[mimeType |-> "image/png", data |-> <<>>]>>

\* a gemini_messages call that passed validation and sent its request
MessagesSent(c) ==
    /\ calls[c].name = "gemini_messages"
    /\ Len(calls[c].requests) = 1
SystemMessages(c) ==
    SelectSeq(Get(calls[c].args.messages), LAMBDA m : m.role = "system")
SystemInstruction(c) == calls[c].requests[1].config.systemInstruction

\* C13: the system instruction of a gemini_messages request is the
\* instructions argument when one is given, and otherwise the content of
\* the system-role message of the conversation when there is one.
C13_InstructionsOverrideSystemMessage ==
    \A c \in DOMAIN calls :
        MessagesSent(c) =>
            /\ IsSome(calls[c].args.instructions) =>
                  SystemInstruction(c) = calls[c].args.instructions
            /\ (~IsSome(calls[c].args.instructions) /\ SystemMessages(c) # <<>>) =>
                  SystemInstruction(c) = Some(SystemMessages(c)[1].content)

\* C13, amended: the system instruction is the instructions argument when
\* it is given and not empty; otherwise (absent or the empty string) it is
\* the content of the first system-role message, and undefined when the
\* conversation has none.
C13_NonEmptyInstructionsOverride ==
    \A c \in DOMAIN calls :
        MessagesSent(c) =>
            SystemInstruction(c) =
                IF IsSome(calls[c].args.instructions) /\ Get(calls[c].args.instructions) # <<>>
                THEN calls[c].args.instructions
                ELSE IF SystemMessages(c) # <<>> THEN Some(SystemMessages(c)[1].content)
                ELSE None

C13_Witness ==
    \E c \in DOMAIN calls :
        /\ MessagesSent(c)
        /\ calls[c].args.instructions = Some(<<>>)
        /\ Len(SystemMessages(c)) = 2
        /\ SystemInstruction(c) = Some(<<"be brief">>)

FooterTools ==
    {"gemini_generate", "gemini_messages", "gemini_image", "gemini_svg", "gemini_segment"}
CountOrZero(o) == IF IsSome(o) THEN Get(o) ELSE 0
\* the footer for the usage metadata u of a response
Footer(u) ==
    <<"**Usage:** ", ToString(CountOrZero(u.promptTokenCount)), " prompt, ",
      ToString(CountOrZero(u.candidatesTokenCount)), " completion, ",
      ToString(CountOrZero(u.totalTokenCount)), " total">>
TextBlocks(c) == SelectSeq(Reply(c).content, LAMBDA b : b.type = "text")

\* C14: a reply of gemini_generate, gemini_messages, gemini_image,
\* gemini_svg or gemini_segment to a response with usage metadata ends with
\* the footer "P prompt, C completion, T total" of the upstream counts, an
\* absent count shown as 0; to a response without usage metadata, no block
\* of the reply holds a usage footer.
C14_UsageFooter ==
    \A c \in DOMAIN calls :
        (/\ Done(c)
         /\ calls[c].name \in FooterTools
         /\ ~IsSome(calls[c].thrown)
         /\ IsSome(calls[c].response)) =>
            LET usage == Get(calls[c].response).usageMetadata
                content == Reply(c).content
            IN  IF IsSome(usage)
                THEN /\ Len(content) >= 1
                     /\ content[Len(content)].type = "text"
                     /\ endsWith(content[Len(content)].text, Footer(Get(usage)))
                ELSE \A i \in 1..Len(TextBlocks(c)) :
                        "**Usage:** " \notin Range(TextBlocks(c)[i].text)

C14_Witness ==
    \E c \in DOMAIN calls :
        /\ Done(c)
        /\ calls[c].name = "gemini_segment"
        /\ ~IsSome(calls[c].thrown)
        /\ IsSome(calls[c].response)
        /\ IsSome(Get(calls[c].response).usageMetadata)
        /\ ~IsSome(Get(Get(calls[c].response).usageMetadata).totalTokenCount)
        /\ Len(Reply(c).content) = 2

\* a gemini_edit call that has sent its request
EditSent(c) == calls[c].name = "gemini_edit" /\ Len(calls[c].requests) = 1
References(c) == calls[c].requests[1].referenceImages

\* C15: the reference list of a gemini_edit request is the source image
\* with reference id 1, followed, when a mask image is supplied, by the mask
\* image with reference id 2 and mask mode MASK_MODE_USER_PROVIDED, and by
\* nothing else.
C15_EditReferences ==
    \A c \in DOMAIN calls :
        EditSent(c) =>
            /\ Len(References(c)) = IF Truthy(calls[c].args.mask_image) THEN 2 ELSE 1
            /\ References(c)[1].kind = "RawReferenceImage"
            /\ References(c)[1].referenceId = 1
            /\ References(c)[1].referenceImage = Get(calls[c].inputImage)
            /\ calls[c].reads[1] = resolve(Get(calls[c].args.input_image))
            /\ Truthy(calls[c].args.mask_image) =>
                  /\ References(c)[2].kind = "MaskReferenceImage"
                  /\ References(c)[2].referenceId = 2
                  /\ References(c)[2].maskMode = Some("MASK_MODE_USER_PROVIDED")
                  /\ IsSome(calls[c].maskImage)
                  /\ References(c)[2].referenceImage = Get(calls[c].maskImage)
                  /\ calls[c].reads = <<resolve(Get(calls[c].args.input_image)),
                                        resolve(Get(calls[c].args.mask_image))>>

C15_Witness ==
    \E c \in DOMAIN calls :
        /\ EditSent(c)
        /\ calls[c].args.mask_image = Some(MaskPath)
        /\ Len(References(c)) = 2
        /\ References(c)[1].referenceImage.mimeType = "image/png"
        /\ References(c)[2].referenceImage.mimeType = "image/webp"

\* the lower-cased text after the last "." of a path (the whole path when it
\* holds no "."), and the mime type the extension table gives it
LastExtension(path) ==
    LET p == toLowerCase(path)
    IN  IF Dots(p) = {} THEN p ELSE SubSeq(p, Max(Dots(p)) + 1, Len(p))
TableMime(ext) ==
    CASE ext = <<"p", "n", "g">> -> "image/png"
      [] ext \in {<<"j", "p", "g">>, <<"j", "p", "e", "g">>} -> "image/jpeg"
      [] ext = <<"g", "i", "f">> -> "image/gif"
      [] ext = <<"w", "e", "b", "p">> -> "image/webp"
      [] ext = <<"b", "m", "p">> -> "image/bmp"
      [] OTHER -> "image/png"

\* C16: the mime type of every input image and mask is the one the
\* extension table gives the lower-cased text after the last "." of its
\* path, image/png for every text outside the table, whatever the bytes of
\* the file.
C16_MimeTypeFromExtension ==
    \A c \in DOMAIN calls :
        /\ IsSome(calls[c].inputImage) =>
              Get(calls[c].inputImage).mimeType = TableMime(LastExtension(calls[c].reads[1]))
        /\ IsSome(calls[c].maskImage) =>
              Get(calls[c].maskImage).mimeType = TableMime(LastExtension(calls[c].reads[2]))

ImageBlocks(c) == SelectSeq(Reply(c).content, LAMBDA b : b.type = "image")

ThoughtParts(c) ==
    SelectSeq(FirstCandidateParts(c), LAMBDA part : part.thought /\ Truthy(part.text))

\* C18: when the first candidate of the response to a gemini_generate or
\* gemini_messages call holds thought parts, the reply text opens with a
\* "**Reasoning:**" section holding their text, followed by a
\* "**Response:**" section.
C18_ReasoningSection ==
    \A c \in DOMAIN calls :
        (/\ Done(c)
         /\ calls[c].name \in {"gemini_generate", "gemini_messages"}
         /\ ~IsSome(calls[c].thrown)
         /\ ThoughtParts(c) # <<>>) =>
            LET text == Reply(c).content[1].text
                reasoning == concat([i \in 1..Len(ThoughtParts(c)) |->
                                        Get(ThoughtParts(c)[i].text)])
            IN  /\ startsWith(text, <<"**Reasoning:**\n">> \o reasoning
                                    \o <<"\n\n**Response:**\n">>)

\* a gemini_segment call in which nothing failed
Segmented(c) ==
    /\ Done(c)
    /\ calls[c].name = "gemini_segment"
    /\ ~IsSome(calls[c].thrown)
    /\ IsSome(calls[c].response)
Masks(c) == calls[c].result.masks
\* sub occurs in s as a run of consecutive elements
Occurs(sub, s) ==
    \E k \in 0..(Len(s) - Len(sub)) : SubSeq(s, k + 1, k + Len(sub)) = sub
\* what the summary says of mask i: its 0-based index, its label, its box
Entry(c, i) ==
    <<"{index: ", ToString(i - 1), ", label: ", Get(Masks(c)[i].label),
      ", box_2d: ", Get(Masks(c)[i].box_2d)>>

Drawn(c) ==
    /\ Done(c)
    /\ calls[c].name = "gemini_svg"
    /\ ~IsSome(calls[c].thrown)
    /\ IsSome(calls[c].response)
Markup(c) == svgCleanup(ResponseText(c))

\* C20: a gemini_svg call in which nothing failed, given an output path,
\* writes one file, at the resolved output path, holding the fence-stripped
\* markup and no usage footer, and replies with one text that starts
\* "Saved SVG: <resolved path>" and does not hold the markup; given no output
\* path it writes no file and its reply text starts with the fence-stripped
\* markup.
C20_SvgSavedOrInline ==
    \A c \in DOMAIN calls :
        Drawn(c) =>
            LET text == Reply(c).content[1].text
            IN  /\ Len(Reply(c).content) = 1
                /\ Reply(c).content[1].type = "text"
                /\ IF Truthy(calls[c].args.output_path)
                   THEN LET absPath == resolve(Get(calls[c].args.output_path))
                        IN  /\ calls[c].writes = <<[path |-> absPath, data |-> Markup(c)]>>
                            /\ "**Usage:** " \notin Range(calls[c].writes[1].data)
                            /\ startsWith(text, <<"Saved SVG: ">> \o absPath)
                            /\ LET rest == slice(text, 1 + Len(absPath))
                                    u == Get(calls[c].response).usageMetadata
                               IN  \/ rest = <<>>
                                   \/ /\ IsSome(u)
                                      /\ Len(rest) = 1 + Len(Footer(Get(u)))
                                      /\ endsWith(rest, Footer(Get(u)))
                   ELSE /\ calls[c].writes = <<>>
                        /\ "write" \notin Range(calls[c].steps)
                        /\ startsWith(text, Markup(c))

C20_Witness ==
    \E c \in DOMAIN calls :
        /\ Drawn(c)
        /\ calls[c].args.output_path = Some(OutSvg)
        /\ ResponseText(c) = Fence \o <<"<svg/>">> \o Fence
        /\ IsSome(Get(calls[c].response).usageMetadata)
        /\ calls[c].writes = <<[path |-> <<"/", "w", "/", "o", ".", "s", "v", "g">>,
                                data |-> <<"<svg/>">>]>>

\* the step at which call c threw, "" when it did not throw
ThrownAt(c) == IF IsSome(calls[c].thrown) THEN Get(calls[c].thrown).step ELSE ""
\* how many times step s occurs in the log of call c
Count(c, s) == Cardinality({k \in 1..Len(calls[c].steps) : calls[c].steps[k] = s})
\* call c names a capability tool and its arguments pass the schema
Validated(c) ==
    /\ calls[c].name \in SevenTools
    /\ schemaIssues(calls[c].name, calls[c].arguments) = <<>>
IsErrorReply(c) == Reply(c).kind = "result" /\ Reply(c).isError

\* C21: a tool call issues at most one upstream request; a finished call
\* issued exactly one when its validation and all its input file reads
\* succeeded and none otherwise; a call whose upstream request failed issued
\* nothing after that request and ended in an error reply.
C21_AtMostOneRequest ==
    \A c \in DOMAIN calls :
        /\ Len(calls[c].requests) <= 1
        /\ Count(c, "request") = Len(calls[c].requests)
        /\ (isConfigured /\ Done(c)) =>
              ((Len(calls[c].requests) = 1) <=> (Validated(c) /\ ThrownAt(c) # "read"))
        /\ ThrownAt(c) = "upstream" =>
              /\ Done(c)
              /\ IsErrorReply(c)
              /\ Len(calls[c].steps) >= 2
              /\ SubSeq(calls[c].steps, Len(calls[c].steps) - 1, Len(calls[c].steps))
                    = <<"request", "reply">>
              /\ calls[c].writes = <<>>

C21_Witness ==
    \E c \in DOMAIN calls :
        /\ ThrownAt(c) = "upstream"
        /\ calls[c].name = "gemini_edit"
        /\ Len(calls[c].reads) = 2
        /\ Len(calls[c].requests) = 1
        /\ IsErrorReply(c)

\* the place of each step in the order validate, read, request, write, reply
Rank(step) ==
    CASE step = "parse" -> 1
      [] step = "read" -> 2
      [] step = "request" -> 3
      [] step = "write" -> 4
      [] step = "reply" -> 5
\* the input files call c has to read: its input image, and its mask if any
InputFiles(c) ==
    LET a == Get(calls[c].arguments)
    IN  IF ~readsInput(calls[c].name, a) THEN 0
        ELSE IF calls[c].name = "gemini_edit" /\ Truthy(a.mask_image) THEN 2
        ELSE 1

\* C22: the steps of a tool call occur in the order validate, read input
\* files, upstream request, write output files, reply: a file is read only
\* after a successful validation, the upstream request is issued only after
\* every input file was read successfully, a file is written only after the
\* upstream request returned, and the reply is the last step, after the last
\* write.
C22_StepOrder ==
    \A c \in DOMAIN calls :
        LET steps == calls[c].steps
            valid == Validated(c)
            files == InputFiles(c)
            writes == Count(c, "write")
        IN  /\ \A k \in 1..(Len(steps) - 1) : Rank(steps[k]) <= Rank(steps[k + 1])
            /\ Count(c, "parse") <= 1 /\ Count(c, "reply") <= 1
            /\ Count(c, "read") = Len(calls[c].reads)
            /\ calls[c].reads # <<>> => (valid /\ steps[1] = "parse")
            /\ calls[c].requests # <<>> =>
                  /\ valid
                  /\ ThrownAt(c) # "read"
                  /\ Len(calls[c].reads) = files
                  /\ IsSome(calls[c].inputImage) = (files >= 1)
                  /\ IsSome(calls[c].maskImage) = (files = 2)
            /\ (writes > 0 \/ calls[c].writes # <<>>) =>
                  /\ Len(calls[c].requests) = 1
                  /\ IsSome(calls[c].response)
                  /\ ThrownAt(c) # "upstream"
            /\ Len(calls[c].writes) <= writes
            /\ IsSome(calls[c].reply) =>
                  /\ Done(c)
                  /\ steps[Len(steps)] = "reply"
                  /\ ThrownAt(c) # "write" => Len(calls[c].writes) = writes
            /\ Done(c) => IsSome(calls[c].reply)

C22_Witness ==
    \E c \in DOMAIN calls :
        /\ Done(c)
        /\ calls[c].name = "gemini_edit"
        /\ calls[c].steps = <<"parse", "read", "read", "request", "write", "write", "reply">>
        /\ Len(calls[c].writes) = 2

\* the handler run by itself on the request of the call seen, each of its
\* awaits settling as it settled for seen
RECURSIVE Alone(_, _)
Alone(c, seen) ==
    LET failed == IsSome(seen.thrown) /\ Get(seen.thrown).step \in {"read", "upstream", "write"}
        error == Get(seen.thrown).message
    IN  CASE c.pc = "readInput" /\ IsSome(seen.inputImage) ->
                Alone(afterReadInput(c, fromBase64(Get(seen.inputImage).imageBytes), apiKey), seen)
          [] c.pc = "readMask" /\ IsSome(seen.maskImage) ->
                Alone(afterReadMask(c, fromBase64(Get(seen.maskImage).imageBytes), apiKey), seen)
          [] c.pc = "upstream" /\ IsSome(seen.response) ->
                Alone(afterUpstream([c EXCEPT !.response = seen.response],
                                    Get(seen.response)), seen)
          [] c.pc = "write" /\ Len(c.writes) < Len(seen.writes) -> Alone(afterWrite(c), seen)
          [] c.pc \in {"readInput", "readMask", "upstream", "write"} /\ failed ->
                throw(c, Get(seen.thrown).step, error)
          [] OTHER -> c
AloneOf(c) ==
    Alone(callTool([name |-> calls[c].name, arguments |-> calls[c].arguments]), calls[c])

\* every file call c wrote holds what c wrote to it
FilesHold(c) ==
    \A k \in 1..Len(calls[c].writes) :
        LET w == calls[c].writes[k]
        IN  w.path \in DOMAIN disk /\ disk[w.path].content = w.data
\* no other request has written, or is writing, a file that call c wrote
FilesApart(c) ==
    \A k \in 1..Len(calls[c].writes) :
        LET w == calls[c].writes[k]
        IN  /\ inFlight(c, w.path) = {}
            /\ w.path \in DOMAIN disk => disk[w.path].writers = {c}
\* the output path given to call c, resolved, if one was given
OutputPath(c) ==
    IF IsSome(calls[c].arguments) /\ Truthy(Get(calls[c].arguments).output_path)
    THEN Some(resolve(Get(Get(calls[c].arguments).output_path)))
    ELSE None
\* the output paths of the requests the server holds are pairwise distinct
OutputPathsApart ==
    \A c, d \in DOMAIN calls :
        (c # d /\ IsSome(OutputPath(c)) /\ IsSome(OutputPath(d))) => OutputPath(c) # OutputPath(d)

\* C23 as stated: when the output paths of the requests in flight are pairwise
\* distinct, the reply and the files of each finished call are those of the
\* call run alone.
C23_DistinctOutputPathsSuffice ==
    \A c \in DOMAIN calls :
        (Done(c) /\ OutputPathsApart) => (calls[c] = AloneOf(c) /\ FilesHold(c))

\* C23, amended: each finished call has the reply and the write log of the
\* call run alone with the same outcomes of its awaits, and no step of a call
\* has changed the credential or the gate; when no other request has written
\* or is writing a file the call wrote, each of its files holds what it wrote.
C23_IndependentCalls ==
    /\ apiKey = apiKeyOf(startEnv)
    /\ isConfigured = Truthy(apiKey)
    /\ \A c \in DOMAIN calls :
          Done(c) => /\ calls[c] = AloneOf(c)
                     /\ FilesApart(c) => FilesHold(c)

C23_Witness ==
    \E c, d \in DOMAIN calls :
        /\ c # d /\ Done(c) /\ Done(d)
        /\ calls[c].arguments = Some([ImageArgs EXCEPT !.output_path = Some(OutPlain)])
        /\ calls[d].arguments = Some([ImageArgs EXCEPT !.output_path = Some(OutWithExt)])
        /\ Len(calls[c].writes) = 1 /\ Len(calls[d].writes) = 1
        /\ calls[c].writes[1].path = <<"/", "w", "/", "o", "u", "t", ".", "w", "e", "b", "p">>
        /\ calls[d].writes[1].path = <<"/", "w", "/", "o", "u", "t", ".", "p", "n", "g">>
        /\ FilesApart(c) /\ FilesApart(d)
        /\ disk[calls[c].writes[1].path].content = <<"IMG-2">>
        /\ disk[calls[d].writes[1].path].content = <<"IMG-1">>

\* calls c and d were given the same output path, and each saved an image
SamePathSaved(c, d) ==
    /\ c # d /\ Done(c) /\ Done(d)
    /\ IsSome(OutputPath(c)) /\ OutputPath(c) = OutputPath(d)
    /\ ~IsSome(calls[c].thrown) /\ ~IsSome(calls[d].thrown)
    /\ Len(calls[c].writes) = 1 /\ Len(calls[d].writes) = 1
\* the data written by the call whose write to this path settled last
LastWritten(path) ==
    LET c == disk[path].by
        k == CHOOSE k \in 1..Len(calls[c].writes) : calls[c].writes[k].path = path
    IN  calls[c].writes[k].data

ParsedEntries(c) ==
    LET parsed == JSONparse(jsonCleanup(ResponseText(c)))
    IN  IF parsed.ok /\ parsed.value.arr
           /\ \A i \in 1..Len(parsed.value.items) : hasStringMask(parsed.value.items[i])
        THEN [i \in 1..Len(parsed.value.items) |-> JsonObjects[parsed.value.items[i].atom]]
        ELSE <<>>
IsDataUri(mask) == startsWith(mask, <<"data:">>)

\* C25: for each parsed entry, a mask that begins with "data:" is in the
\* result as its payload, without the scheme prefix, and any other mask is in
\* the result unchanged; the reply of the gemini_segment call to such a
\* response is not an error reply.
C25_DataUriPrefixStripped ==
    \A c \in DOMAIN calls :
        (/\ Done(c)
         /\ calls[c].name = "gemini_segment"
         /\ IsSome(calls[c].response)
         /\ ThrownAt(c) # "write"
         /\ ParsedEntries(c) # <<>>) =>
            /\ Len(Masks(c)) = Len(ParsedEntries(c))
            /\ \A i \in 1..Len(ParsedEntries(c)) :
                  LET given == Get(ParsedEntries(c)[i].mask)
                      mask == Masks(c)[i].mask
                  IN  IF IsDataUri(given)
                      THEN /\ IsSome(mask)
                           /\ ~IsDataUri(Get(mask))
                           /\ Len(Get(mask)) < Len(given)
                           /\ endsWith(given, Get(mask))
                      ELSE mask = Some(given)
            /\ ~IsErrorReply(c)

\* C26: in configured mode a call that names none of the seven capability
\* tools (gemini_setup is one such name) reads no file, writes no file,
\* issues no upstream request, and gets an error reply (isError = true)
\* whose text contains "Unknown tool: <name>", not a protocol error; in
\* unconfigured mode a call that names an unknown tool gets the MethodNotFound
\* protocol error.
C26_UnknownToolWhenConfigured ==
    \A c \in DOMAIN calls :
        (Done(c) /\ calls[c].name \notin SevenTools) =>
            IF isConfigured
            THEN /\ calls[c].reads = <<>> /\ calls[c].writes = <<>> /\ calls[c].requests = <<>>
                 /\ calls[c].steps = <<"reply">>
                 /\ Reply(c).kind = "result"
                 /\ Reply(c).isError
                 /\ Reply(c).code # "MethodNotFound"
                 /\ Len(Reply(c).content) = 1
                 /\ Occurs(<<"Unknown tool: ", calls[c].name>>, Reply(c).content[1].text)
            ELSE calls[c].name # "gemini_setup" =>
                    (Reply(c).kind = "error" /\ Reply(c).code = "MethodNotFound")

C26_Witness ==
    \E c \in DOMAIN calls :
        /\ isConfigured
        /\ Done(c)
        /\ calls[c].name = "gemini_setup"
        /\ Reply(c).isError
        /\ Reply(c).content[1].text =
              <<"Gemini API error: ", "MCP error ", "MethodNotFound", ": ",
                "Unknown tool: ", "gemini_setup">>

\* the file of image i of call c
FilePath(c, i) ==
    resolve(outputFilePath(Get(calls[c].args.output_path), Produced(c)[i].mimeType,
                           Len(Produced(c)), i))
\* a call that produced several images and failed at one of its writes
WriteFailed(c) ==
    /\ Done(c)
    /\ calls[c].name \in ImageTools
    /\ ThrownAt(c) = "write"
    /\ Len(Produced(c)) > 1

\* C27: in a call that produced N > 1 images with an output path and whose
\* write of image k failed, the files of images 1..k-1 are on disk with
\* their data, no file of images k..N is there, and the reply is an error
\* reply that holds the error text only, with no "Saved:" confirmation.
C27_WritesNotAtomic ==
    \A c \in DOMAIN calls :
        WriteFailed(c) =>
            LET N == Len(Produced(c))
                k == Len(calls[c].writes) + 1
            IN  /\ k \in 1..N
                /\ Count(c, "write") = k
                /\ \A i \in 1..(k - 1) :
                      LET file == FilePath(c, i)
                      IN  /\ calls[c].writes[i].path = file
                          /\ calls[c].writes[i].data = <<fromBase64(Produced(c)[i].data)>>
                          /\ file \in DOMAIN disk
                          /\ disk[file].content = calls[c].writes[i].data
                /\ \A i \in k..N : FilePath(c, i) \notin DOMAIN disk
                /\ IsErrorReply(c)
                /\ Reply(c).content =
                      <<[type |-> "text",
                         text |-> <<"Gemini API error: ">> \o Get(calls[c].thrown).message]>>
                /\ "Saved: " \notin Range(Reply(c).content[1].text)

C27_Witness ==
    \E c \in DOMAIN calls :
        /\ WriteFailed(c)
        /\ Len(Produced(c)) = 2
        /\ Len(calls[c].writes) = 1
        /\ calls[c].writes[1].path \in DOMAIN disk
        /\ calls[c].content = <<[type |-> "text", text |-> <<"Saved: ">> \o calls[c].writes[1].path]>>

\* the positions of the messages of call c that are not system messages, and
\* the k-th of them
NonSystem(c) ==
    {i \in 1..Len(Get(calls[c].args.messages)) : Get(calls[c].args.messages)[i].role # "system"}
Kth(S, k) == CHOOSE i \in S : Cardinality({j \in S : j <= i}) = k

\* C28: the contents of a gemini_messages request are the messages that are
\* not system messages, in their order, one entry each, with role "model" for
\* an assistant message and "user" otherwise and the message content as the
\* only text part; no entry comes from a system message, and the system
\* instruction is the instructions argument, the content of the first system
\* message, or nothing: never the content of a later system message.
C28_ContentsAreNonSystemMessages ==
    \A c \in DOMAIN calls :
        MessagesSent(c) =>
            LET messages == Get(calls[c].args.messages)
                contents == calls[c].requests[1].contents
            IN  /\ Len(contents) = Cardinality(NonSystem(c))
                /\ \A k \in 1..Len(contents) :
                      LET m == messages[Kth(NonSystem(c), k)]
                      IN  contents[k] =
                             [role |-> IF m.role = "assistant" THEN "model" ELSE "user",
                              parts |-> <<[text |-> m.content]>>]
                /\ SystemInstruction(c) \in
                      {None, calls[c].args.instructions}
                      \cup (IF SystemMessages(c) # <<>>
                            THEN {Some(SystemMessages(c)[1].content)} ELSE {})

C28_Witness ==
    \E c \in DOMAIN calls :
        /\ MessagesSent(c)
        /\ Len(Get(calls[c].args.messages)) = 4
        /\ calls[c].args.instructions = None
        /\ calls[c].requests[1].contents =
              <<[role |-> "model", parts |-> <<[text |-> <<"hello">>]>>],
                [role |-> "user", parts |-> <<[text |-> <<"hi">>]>>]>>
        /\ SystemInstruction(c) = Some(<<>>)

ImageSent(c) ==
    /\ calls[c].name = "gemini_image"
    /\ Len(calls[c].requests) = 1

\* the call c with other schema-valid values of the three arguments
Variants(c) ==
    {[calls[c] EXCEPT !.args.negative_prompt = np, !.args.num_images = n,
                      !.args.guidance_scale = g] :
        np \in {None, Some(<<>>), Some(<<"no text">>), Some(<<"no", "people">>)},
        n \in Opt(1..4),
        g \in Opt({0, 9})}

StatedKey ==
    IF IsSome(startEnv.GEMINI_API_KEY) /\ Get(startEnv.GEMINI_API_KEY) # <<>>
    THEN startEnv.GEMINI_API_KEY
    ELSE startEnv.GOOGLE_GENERATIVE_AI_API_KEY

\* C30: the server is configured exactly when GEMINI_API_KEY or
\* GOOGLE_GENERATIVE_AI_API_KEY was a non-empty string at startup, and every
\* upstream request carries GEMINI_API_KEY of the startup environment when
\* that was non-empty and GOOGLE_GENERATIVE_AI_API_KEY otherwise, whatever
\* the environment holds later.
C30_GateAndKey ==
    /\ isConfigured <=>
          \E v \in {"GEMINI_API_KEY", "GOOGLE_GENERATIVE_AI_API_KEY"} :
              startEnv[v] \notin {None, Some(<<>>)}
    /\ \A c \in DOMAIN calls :
          \A k \in 1..Len(calls[c].requests) :
              calls[c].requests[k].apiKey = StatedKey

C30_Witness ==
    \E c \in DOMAIN calls :
        /\ startEnv.GEMINI_API_KEY = Some(<<>>)
        /\ startEnv.GOOGLE_GENERATIVE_AI_API_KEY = Some(<<"key-2">>)
        /\ env # startEnv
        /\ isConfigured
        /\ Len(calls[c].requests) = 1
        /\ calls[c].requests[1].apiKey = Some(<<"key-2">>)

====
